---------------------------- MODULE Spec2Model ----------------------------
(***************************************************************************)
(* Partitioned repository of the graph backend: GraphRepository            *)
(* (app/repositories/graph_repository.py) and the CRUD part of             *)
(* GraphService (app/services/graph_service.py), run against a remote      *)
(* Gremlin store.                                                          *)
(*                                                                         *)
(* Python strings are sequences of one-character strings, so that          *)
(* endswith, rsplit, split and uuid parsing are computed, not looked up.   *)
(* None is the empty sequence: the code only tests these values for        *)
(* truthiness or compares them with non-empty strings.                     *)
(***************************************************************************)
EXTENDS Integers, Sequences, FiniteSets, TLC

VARIABLES
    V,      \* the store's vertices: a set of [id, label, props]
    E,      \* the store's edges: a set of [id, from, to, label, props]
    op,     \* the operation (coroutine frame) the caller is running
    q       \* the remote call in flight: the frame of _execute_query / _run_query

vars == <<V, E, op, q>>

----------------------------------------------------------------------------
(* Strings *)

None == << >>

S_a == <<"a">>
S_b == <<"b">>
S_car == <<"c", "a", "r">>
S_bus == <<"b", "u", "s">>
S_v1 == <<"v", "1">>
S_v2 == <<"v", "2">>
S_Case == <<"C", "a", "s", "e">>
S_csv == <<".", "c", "s", "v">>
S_car_log_csv == <<"c", "a", "r", "_", "l", "o", "g">> \o S_csv
S_bus_log_csv == <<"b", "u", "s", "_", "l", "o", "g">> \o S_csv
\* 32 hexadecimal digits: uuid.UUID accepts it
S_uuid == [i \in 1..32 |-> IF i % 2 = 0 THEN "a" ELSE "1"]
S_uuid_csv == S_uuid \o S_csv

Digits == <<"0", "1", "2", "3", "4", "5", "6", "7", "8", "9">>

\* str(n) of a natural number below 100
NatStr(n) == IF n < 10 THEN <<Digits[n + 1]>> ELSE <<Digits[(n \div 10) + 1], Digits[(n % 10) + 1]>>

HexDigits ==
    {"0", "1", "2", "3", "4", "5", "6", "7", "8", "9",
     "a", "b", "c", "d", "e", "f", "A", "B", "C", "D", "E", "F"}

Truthy(x) == x # None

\* a or b, on strings and None
PyOr(x, y) == IF Truthy(x) THEN x ELSE y

\* the characters of s that are not in the set drop, in order
RECURSIVE StripChars(_, _)
StripChars(s, drop) ==
    IF s = << >> THEN << >>
    ELSE IF Head(s) \in drop THEN StripChars(Tail(s), drop)
    ELSE <<Head(s)>> \o StripChars(Tail(s), drop)

\* GraphService._is_uuid: uuid.UUID(str(val)) parses: without braces and
\* hyphens the text is 32 hexadecimal digits
_is_uuid(val) ==
    LET hex == StripChars(val, {"-", "{", "}"})
    IN  /\ Len(hex) = 32
        /\ \A i \in 1..32 : hex[i] \in HexDigits

EndsWith(s, suffix) ==
    /\ Len(s) >= Len(suffix)
    /\ SubSeq(s, Len(s) - Len(suffix) + 1, Len(s)) = suffix

Positions(s, c) == {i \in 1..Len(s) : s[i] = c}

Max(S) == CHOOSE x \in S : \A y \in S : y <= x
Min(S) == CHOOSE x \in S : \A y \in S : x <= y

\* filename.rsplit('.', 1)[0]
RSplitDotFirst(s) ==
    IF Positions(s, ".") = {} THEN s
    ELSE SubSeq(s, 1, Max(Positions(s, ".")) - 1)

\* base.split('_')[0]
SplitUnderscoreFirst(s) ==
    IF Positions(s, "_") = {} THEN s
    ELSE SubSeq(s, 1, Min(Positions(s, "_")) - 1)

\* GraphService._derive_domain
_derive_domain(filename) ==
    IF ~Truthy(filename) THEN <<"g", "e", "n", "e", "r", "a", "l">>
    ELSE LET base == RSplitDotFirst(filename)
         IN  IF Positions(base, "_") # {} THEN SplitUnderscoreFirst(base) ELSE base

----------------------------------------------------------------------------
(* Python dicts: functions from a finite set of keys *)

EmptyDict == [k \in {} |-> None]

Has(d, k) == k \in DOMAIN d

\* d.get(k): None when the key is absent
Get(d, k) == IF k \in DOMAIN d THEN d[k] ELSE None

\* d[k] = v
Put(d, k, v) == [x \in (DOMAIN d) \cup {k} |-> IF x = k THEN v ELSE d[x]]

\* del d[k]
Del(d, k) == [x \in (DOMAIN d) \ {k} |-> d[x]]

\* {**d, **e}
Merge(d, e) == [x \in (DOMAIN d) \cup (DOMAIN e) |-> IF x \in DOMAIN e THEN e[x] ELSE d[x]]


----------------------------------------------------------------------------
(* The remote graph store: the Gremlin steps the repository's queries use. *)
(* A query is a record: its field k names the traversal, the other fields  *)
(* are the values the code interpolated into the query text.               *)

\* GraphRepository._escape: every ' becomes \'
RECURSIVE _escape(_)
_escape(value) ==
    IF value = << >> THEN << >>
    ELSE IF Head(value) = "'" THEN <<"\\", "'">> \o _escape(Tail(value))
    ELSE <<Head(value)>> \o _escape(Tail(value))

\* the store reading a quoted literal back: \' is '
RECURSIVE Unquote(_)
Unquote(text) ==
    IF text = << >> THEN << >>
    ELSE IF Len(text) >= 2 /\ text[1] = "\\" /\ text[2] = "'"
         THEN <<"'">> \o Unquote(Tail(Tail(text)))
    ELSE <<Head(text)>> \o Unquote(Tail(text))

UnquoteAll(props) == [k \in DOMAIN props |-> Unquote(props[k])]

\* the subsets of S with k elements
RECURSIVE KSubsets(_, _)
KSubsets(S, k) ==
    IF k = 0 THEN {{}}
    ELSE UNION {{T \cup {x} : T \in KSubsets(S \ {x}, k - 1)} : x \in S}

\* limit(n): the traversers that pass; which ones is the store's choice
Limit(S, n) ==
    IF Cardinality(S) <= n THEN {S}
    ELSE {S \ R : R \in KSubsets(S, Cardinality(S) - n)}

\* a set as a result list, in some order
RECURSIVE SetToSeq(_)
SetToSeq(S) ==
    IF S = {} THEN << >>
    ELSE LET x == CHOOSE y \in S : TRUE IN <<x>> \o SetToSeq(S \ {x})

\* g.V('id')
VById(Vs, id) == {v \in Vs : v.id = id}

\* .has('key', 'val')
HasProp(S, key, val) == {v \in S : Has(v.props, key) /\ v.props[key] = val}

\* .property(k, v)... on one vertex
SetProps(v, props) == [v EXCEPT !.props = Merge(@, UnquoteAll(props))]

\* .drop() of vertices: their incident edges go with them
DropV(Vs, Es, gone) ==
    [V |-> Vs \ gone,
     E |-> {e \in Es : \A v \in gone : e.from # v.id /\ e.to # v.id}]

Outcome(Vs, Es, res) == [V |-> Vs, E |-> Es, res |-> res]

\* the query without fold().coalesce(unfold(), ...): addV every time
StoreUpsertV_add(query, Vs, Es) ==
    LET fresh == [id |-> query.id, label |-> query.label,
                  props |-> [k \in {"pk"} |-> query.pk]]
        done == {SetProps(fresh, query.props)}
    IN  {Outcome(Vs \cup done, Es, SetToSeq(done))}

\* g.V('id').fold().coalesce(unfold(), addV(label).property('id', id)
\*   .property(pk_key, pk_val)).property(k, v)...
StoreUpsertV(query, Vs, Es) ==
    LET found == VById(Vs, query.id)
        fresh == [id |-> query.id, label |-> query.label,
                  props |-> [k \in {"pk"} |-> query.pk]]
        hit == IF found # {} THEN found ELSE {fresh}
        done == {SetProps(v, query.props) : v \in hit}
    IN  {Outcome((Vs \ found) \cup done, Es, SetToSeq(done))}

\* g.V('id').has(pk_key, pk_val).property(k, v)...
StoreUpdateV(query, Vs, Es) ==
    LET hit == HasProp(VById(Vs, query.id), "pk", query.pk)
        done == {SetProps(v, query.props) : v \in hit}
    IN  {Outcome((Vs \ hit) \cup done, Es, SetToSeq(done))}

\* g.V('id').has(pk_key, pk_val).drop()
StoreDropV(query, Vs, Es) ==
    LET hit == HasProp(VById(Vs, query.id), "pk", query.pk)
        left == DropV(Vs, Es, hit)
    IN  {Outcome(left.V, left.E, << >>)}

\* g.V('id').drop()
StoreDropVid(query, Vs, Es) ==
    LET left == DropV(Vs, Es, VById(Vs, query.id))
    IN  {Outcome(left.V, left.E, << >>)}

\* g.V('id').values(pk_key)
StoreValuesPk(query, Vs, Es) ==
    {Outcome(Vs, Es, SetToSeq({v.props["pk"] : v \in {w \in VById(Vs, query.id) : Has(w.props, "pk")}}))}

\* g.V().has('documentId', doc).count()
StoreCountDoc(query, Vs, Es) ==
    {Outcome(Vs, Es, <<Cardinality(HasProp(Vs, "documentId", Unquote(query.doc)))>>)}

\* g.V().has('documentId', doc).limit(n).drop()
StoreDropDocBatch(query, Vs, Es) ==
    {LET left == DropV(Vs, Es, hit) IN Outcome(left.V, left.E, << >>) :
        hit \in Limit(HasProp(Vs, "documentId", Unquote(query.doc)), query.limit)}

\* g.V().count() and g.E().count()
StoreCountV(query, Vs, Es) == {Outcome(Vs, Es, <<Cardinality(Vs)>>)}
StoreCountE(query, Vs, Es) == {Outcome(Vs, Es, <<Cardinality(Es)>>)}

\* g.V()[.has('documentId', doc)][.limit(n)][.hasLabel(labels)].valueMap(true)
StoreReadV(query, Vs, Es) ==
    LET docs == IF Truthy(query.doc) THEN HasProp(Vs, "documentId", Unquote(query.doc)) ELSE Vs
        scoped == IF query.limited THEN Limit(docs, query.limit) ELSE {docs}
    IN  {Outcome(Vs, Es, SetToSeq({v \in S : query.labels = {} \/ v.label \in query.labels})) :
            S \in scoped}

\* g.E()[.has('doc', doc)][.limit(n)].project(...)
StoreReadE(query, Vs, Es) ==
    LET docs == IF Truthy(query.doc) THEN HasProp(Es, "doc", Unquote(query.doc)) ELSE Es
        scoped == IF query.limited THEN Limit(docs, query.limit) ELSE {docs}
    IN  {Outcome(Vs, Es, SetToSeq(S)) : S \in scoped}

\* g.V().has('label', TextP.containing(keyword)).limit(n).valueMap(true)
StoreSearchV(query, Vs, Es) ==
    LET hit == {v \in Vs : Has(v.props, "label")
                           /\ \E i \in 1..(Len(v.props["label"]) + 1) :
                                 \E j \in (i - 1)..Len(v.props["label"]) :
                                    SubSeq(v.props["label"], i, j) = query.keyword}
    IN  {Outcome(Vs, Es, SetToSeq(S)) : S \in Limit(hit, query.limit)}

\* the id the store gives a new edge
NewEdgeId(Es) ==
    LET n == CHOOSE m \in 1..(Cardinality(Es) + 1) : \A e \in Es : e.id # <<"g">> \o NatStr(m)
    IN  <<"g">> \o NatStr(n)

\* g.V('from').coalesce(outE('label').where(inV().hasId('to')),
\*                      addE('label').to(g.V('to')).property(k, v)...)
\* no vertex 'from': no traverser, nothing happens; an edge with this label
\* from 'from' to 'to': it is the result and no step of the second branch
\* runs; otherwise an edge is added when the vertex 'to' exists
StoreUpsertE(query, Vs, Es) ==
    LET found == {e \in Es : e.from = query.from /\ e.to = query.to /\ e.label = query.label}
        fresh == [id |-> NewEdgeId(Es), from |-> query.from, to |-> query.to,
                  label |-> query.label, props |-> UnquoteAll(query.props)]
    IN  IF VById(Vs, query.from) = {} THEN {Outcome(Vs, Es, << >>)}
        ELSE IF found # {} THEN {Outcome(Vs, Es, SetToSeq(found))}
        ELSE IF VById(Vs, query.to) = {} THEN {Outcome(Vs, Es, << >>)}
        ELSE {Outcome(Vs, Es \cup {fresh}, <<fresh>>)}

\* g.E('id').property(k, v)...
StoreUpdateE(query, Vs, Es) ==
    LET hit == {e \in Es : e.id = query.id}
        done == {[e EXCEPT !.props = Merge(@, UnquoteAll(query.props))] : e \in hit}
    IN  {Outcome(Vs, (Es \ hit) \cup done, SetToSeq(done))}

\* g.E('id').drop()
StoreDropE(query, Vs, Es) == {Outcome(Vs, {e \in Es : e.id # query.id}, << >>)}

\* g.E('id').project('sid', 'tid', 'props').by(outV().id()).by(inV().id()).by(valueMap())
StoreProjectE(query, Vs, Es) ==
    {Outcome(Vs, Es, SetToSeq({[sid |-> e.from, tid |-> e.to, props |-> e.props] :
                                  e \in {x \in Es : x.id = query.id}}))}

\* g.V('id').project('doc', 'pk').by(coalesce(values('documentId'), constant('')))
\*                               .by(coalesce(values(pk_key), constant('')))
StoreProjectV(query, Vs, Es) ==
    {Outcome(Vs, Es, SetToSeq({[doc |-> Get(v.props, "documentId"), pk |-> Get(v.props, "pk")] :
                                  v \in VById(Vs, query.id)}))}

\* g.V('id').union(identity(), both()).dedup().valueMap(true)
StoreNeighborsV(query, Vs, Es) ==
    LET centre == VById(Vs, query.id)
        near == {v \in Vs : centre # {} /\ \E e \in Es :
                    \/ (e.from = query.id /\ e.to = v.id)
                    \/ (e.to = query.id /\ e.from = v.id)}
    IN  {Outcome(Vs, Es, SetToSeq(centre \cup near))}

\* g.V('id').bothE().dedup().project('id', 'label', 'inV', 'outV', 'properties')
StoreNeighborsE(query, Vs, Es) ==
    {Outcome(Vs, Es, SetToSeq({e \in Es : VById(Vs, query.id) # {}
                                          /\ (e.from = query.id \/ e.to = query.id)}))}

\* every ' of the text is escaped: it can stand between the quotes of a
\* string literal of the query
QuoteSafe(text) ==
    \A i \in 1..Len(text) : text[i] = "'" => (i > 1 /\ text[i - 1] = "\\")

\* the texts a query carries between quotes
Literals(query) ==
    {query[f] : f \in {"id", "label", "pk", "doc", "keyword", "from", "to"} \cap DOMAIN query}
    \cup (IF "labels" \in DOMAIN query THEN query.labels ELSE {})
    \cup (IF "props" \in DOMAIN query THEN {query.props[x] : x \in DOMAIN query.props} ELSE {})

\* what the store can do with a query it executes: a query with a broken
\* string literal has no result, the store answers it with an error
StoreOutcomes(query, Vs, Es) ==
    IF \E text \in Literals(query) : ~QuoteSafe(text) THEN {} ELSE
    CASE query.k = "upsertV" -> StoreUpsertV(query, Vs, Es)
      [] query.k = "updateV" -> StoreUpdateV(query, Vs, Es)
      [] query.k = "dropV" -> StoreDropV(query, Vs, Es)
      [] query.k = "dropVid" -> StoreDropVid(query, Vs, Es)
      [] query.k = "valuesPk" -> StoreValuesPk(query, Vs, Es)
      [] query.k = "countDoc" -> StoreCountDoc(query, Vs, Es)
      [] query.k = "dropDocBatch" -> StoreDropDocBatch(query, Vs, Es)
      [] query.k = "countV" -> StoreCountV(query, Vs, Es)
      [] query.k = "countE" -> StoreCountE(query, Vs, Es)
      [] query.k = "readV" -> StoreReadV(query, Vs, Es)
      [] query.k = "readE" -> StoreReadE(query, Vs, Es)
      [] query.k = "searchV" -> StoreSearchV(query, Vs, Es)
      [] query.k = "upsertE" -> StoreUpsertE(query, Vs, Es)
      [] query.k = "updateE" -> StoreUpdateE(query, Vs, Es)
      [] query.k = "dropE" -> StoreDropE(query, Vs, Es)
      [] query.k = "projectE" -> StoreProjectE(query, Vs, Es)
      [] query.k = "projectV" -> StoreProjectV(query, Vs, Es)
      [] query.k = "neighborsV" -> StoreNeighborsV(query, Vs, Es)
      [] query.k = "neighborsE" -> StoreNeighborsE(query, Vs, Es)

----------------------------------------------------------------------------
(* GraphRepository._execute_query: one remote call under the retry policy. *)

MAX_RETRIES == 5

\* whether pattern occurs in text
Contains(text, pattern) ==
    \E i \in 1..(Len(text) - Len(pattern) + 1) :
        SubSeq(text, i, i + Len(pattern) - 1) = pattern

T_429 == <<"4", "2", "9">>
T_404 == <<"4", "0", "4">>
T_RequestRateTooLarge ==
    <<"R", "e", "q", "u", "e", "s", "t", "R", "a", "t", "e",
      "T", "o", "o", "L", "a", "r", "g", "e">>
\* a server error that names no status the code looks for
T_500 == <<"5", "0", "0">>
\* a conflict whose activity id happens to hold the digits 404
T_409_id404 == <<"4", "0", "9", " ", "i", "d", "=", "7", "4", "0", "4", "1">>

\* what the store can answer: a result, or an exception with this text
ErrorTexts == {T_429, T_RequestRateTooLarge, T_404, T_500, T_409_id404}
Responses == {[ok |-> TRUE, text |-> None]} \cup {[ok |-> FALSE, text |-> t] : t \in ErrorTexts}

IsRateLimit(error_msg) ==
    Contains(error_msg, T_429) \/ Contains(error_msg, T_RequestRateTooLarge)

IsNotFound(error_msg) == Contains(error_msg, T_404)

\* the branch of the except clause an error text takes
Signal(error_msg) ==
    IF IsRateLimit(error_msg) THEN "throttle"
    ELSE IF IsNotFound(error_msg) THEN "notfound"
    ELSE "error"

NoQuery == [k |-> "none"]

IdleFrame ==
    [st |-> "idle", via |-> "none", query |-> NoQuery, retries |-> 0,
     attempts |-> 0, sleeps |-> 0, hist |-> << >>, result |-> << >>, err |-> None]

\* entering _execute_query(query): retries = 0
Submit(query) == [IdleFrame EXCEPT !.st = "try", !.via = "_execute_query", !.query = query]

\* entering GraphService._run_query(query)
SubmitRunQuery(query) == [IdleFrame EXCEPT !.st = "try", !.via = "_run_query", !.query = query]

RetriesExceeded_early(retries) == retries >= MAX_RETRIES

RetriesExceeded_late(retries) == retries > MAX_RETRIES + 1

\* retries > MAX_RETRIES
RetriesExceeded(retries) == retries > MAX_RETRIES

\* the try body returned result_set.all().result()
OnResult(f, res) ==
    [f EXCEPT !.st = "ret", !.result = res, !.attempts = @ + 1,
              !.hist = Append(@, "result")]

\* the except clause without its not-found branch
OnException_no404(f, error_msg) ==
    LET g == [f EXCEPT !.attempts = @ + 1, !.hist = Append(@, Signal(error_msg))]
    IN  IF IsRateLimit(error_msg)
        THEN IF g.retries + 1 > MAX_RETRIES
             THEN [g EXCEPT !.retries = @ + 1, !.st = "raise", !.err = error_msg]
             ELSE [g EXCEPT !.retries = @ + 1, !.st = "sleep", !.sleeps = @ + 1]
        ELSE [g EXCEPT !.st = "raise", !.err = error_msg]

\* the except clause of _execute_query, on an exception with text error_msg
OnException(f, error_msg) ==
    LET g == [f EXCEPT !.attempts = @ + 1, !.hist = Append(@, Signal(error_msg))]
    IN  IF IsRateLimit(error_msg)
        THEN IF RetriesExceeded(g.retries + 1)
             THEN [g EXCEPT !.retries = @ + 1, !.st = "raise", !.err = error_msg]
             ELSE [g EXCEPT !.retries = @ + 1, !.st = "sleep", !.sleeps = @ + 1]
        ELSE IF IsNotFound(error_msg)
        THEN [g EXCEPT !.st = "ret", !.result = << >>]
        ELSE [g EXCEPT !.st = "raise", !.err = error_msg]

\* one pass of the while loop: submit, and the store answers
Answer(resp) ==
    /\ q.st = "try"
    /\ q.via = "_execute_query"
    /\ IF resp.ok
       THEN \E out \in StoreOutcomes(q.query, V, E) :
                /\ V' = out.V
                /\ E' = out.E
                /\ q' = OnResult(q, out.res)
       ELSE /\ q' = OnException(q, resp.text)
            /\ UNCHANGED <<V, E>>

Attempt(resp) ==
    /\ Answer(resp)
    /\ UNCHANGED op

\* asyncio.sleep(wait_time) is over: the loop goes round
Wake ==
    /\ q.st = "sleep"
    /\ q' = [q EXCEPT !.st = "try"]
    /\ UNCHANGED <<V, E, op>>

\* GraphService._run_query: one submit, the first result or the results; any
\* exception is logged and None returned
RunQuery(resp) ==
    /\ q.st = "try"
    /\ q.via = "_run_query"
    /\ IF resp.ok
       THEN \E out \in StoreOutcomes(q.query, V, E) :
                /\ V' = out.V
                /\ E' = out.E
                /\ q' = [q EXCEPT !.st = "ret", !.attempts = @ + 1,
                                  !.hist = Append(@, "result"),
                                  !.result = IF out.res # << >> THEN out.res[1] ELSE out.res]
       ELSE /\ q' = [q EXCEPT !.st = "ret", !.attempts = @ + 1,
                              !.hist = Append(@, Signal(resp.text)),
                              !.result = None]
            /\ UNCHANGED <<V, E>>
    /\ UNCHANGED op

\* entering GraphService._run_query_list(query)
SubmitRunQueryList(query) ==
    [IdleFrame EXCEPT !.st = "try", !.via = "_run_query_list", !.query = query]

\* GraphService._run_query_list: one submit, the list of results; any
\* exception is logged and [] returned
RunQueryList(resp) ==
    /\ q.st = "try"
    /\ q.via = "_run_query_list"
    /\ IF resp.ok
       THEN \E out \in StoreOutcomes(q.query, V, E) :
                /\ V' = out.V
                /\ E' = out.E
                /\ q' = [q EXCEPT !.st = "ret", !.attempts = @ + 1,
                                  !.hist = Append(@, "result"), !.result = out.res]
       ELSE /\ q' = [q EXCEPT !.st = "ret", !.attempts = @ + 1,
                              !.hist = Append(@, Signal(resp.text)), !.result = << >>]
            /\ UNCHANGED <<V, E>>
    /\ UNCHANGED op

----------------------------------------------------------------------------
(* Node writes: GraphRepository.create_entity / update_entity /            *)
(* delete_entity and GraphService.update_entity / delete_entity.           *)

LowerCase == <<"a", "b", "c", "d", "e", "f", "g", "h", "i", "j", "k", "l", "m",
               "n", "o", "p", "q", "r", "s", "t", "u", "v", "w", "x", "y", "z">>
UpperCase == <<"A", "B", "C", "D", "E", "F", "G", "H", "I", "J", "K", "L", "M",
               "N", "O", "P", "Q", "R", "S", "T", "U", "V", "W", "X", "Y", "Z">>

IsLetter(c) == \E i \in 1..26 : c = LowerCase[i] \/ c = UpperCase[i]
LetterIndex(c) == CHOOSE i \in 1..26 : c = LowerCase[i] \/ c = UpperCase[i]
ToUpper(c) == IF IsLetter(c) THEN UpperCase[LetterIndex(c)] ELSE c
ToLower(c) == IF IsLetter(c) THEN LowerCase[LetterIndex(c)] ELSE c

Lower(s) == [i \in 1..Len(s) |-> ToLower(s[i])]
Upper(s) == [i \in 1..Len(s) |-> ToUpper(s[i])]

\* str.strip()
RECURSIVE Strip(_)
Strip(s) ==
    IF s = << >> THEN s
    ELSE IF Head(s) = " " THEN Strip(Tail(s))
    ELSE IF s[Len(s)] = " " THEN Strip(SubSeq(s, 1, Len(s) - 1))
    ELSE s

\* str.title(): a letter is upper case after a non-letter, lower case after a letter
Title(s) ==
    [i \in 1..Len(s) |->
        IF i = 1 \/ ~IsLetter(s[i - 1]) THEN ToUpper(s[i]) ELSE ToLower(s[i])]

\* GraphRepository.pk_key and GraphService.PARTITION_KEY: settings has no
\* COSMOS_GREMLIN_PARTITION_KEY, so both are the default
pk_key == "pk"

skip_keys == {"id", "pk", "partitionKey", pk_key}

\* create_entity's loop with the key filter left out
prop_str_noskip(properties) ==
    [k \in {x \in DOMAIN properties : properties[x] # None}
        |-> _escape(properties[k])]

\* create_entity's loop: the .property() steps of the query
prop_str(properties) ==
    [k \in {x \in DOMAIN properties : x \notin skip_keys /\ properties[x] # None}
        |-> _escape(properties[k])]

\* GraphRepository.create_entity: the query it sends
create_entity_query(entity_id, label, properties) ==
    [k |-> "upsertV", id |-> entity_id, label |-> label,
     pk |-> PyOr(Get(properties, pk_key), PyOr(Get(properties, "partitionKey"), entity_id)),
     props |-> prop_str(properties)]

\* GraphRepository.update_entity: the query it sends
update_entity_query(entity_id, properties, partition_key) ==
    [k |-> "updateV", id |-> entity_id,
     pk |-> IF Truthy(partition_key) THEN partition_key ELSE entity_id,
     props |-> [k \in DOMAIN properties |-> _escape(properties[k])]]

\* GraphRepository.delete_entity: the query it sends
delete_entity_query(entity_id, partition_key) ==
    [k |-> "dropV", id |-> entity_id,
     pk |-> IF Truthy(partition_key) THEN partition_key ELSE entity_id]

\* the discovery lookup of update_entity and delete_entity
discovery_query(entity_id) == [k |-> "valuesPk", id |-> entity_id]

\* GraphService.update_entity, step 1: del target_dict[PARTITION_KEY] when it
\* is a UUID or the entity id
StripBadPk(target_dict, entity_id) ==
    IF Has(target_dict, pk_key)
       /\ (_is_uuid(target_dict[pk_key]) \/ target_dict[pk_key] = entity_id)
    THEN Del(target_dict, pk_key)
    ELSE target_dict

\* GraphService.update_entity up to the discovery lookup (steps 1 to 3)
update_entity_pre(entity_id, payload, partition_key) ==
    LET inner0 == IF Has(payload, "properties") THEN payload["properties"] ELSE EmptyDict
        doc_id == PyOr(Get(inner0, "documentId"), Get(payload, "documentId"))
        inner_props == StripBadPk(inner0, entity_id)
        stripped == StripBadPk(payload, entity_id)
        pk1 == IF partition_key = entity_id THEN None ELSE partition_key
        pk2 == IF Truthy(pk1) /\ EndsWith(pk1, S_csv) THEN _derive_domain(pk1) ELSE pk1
        pk3 == IF Truthy(pk2) /\ _is_uuid(pk2) THEN None ELSE pk2
    IN  [payload |-> IF Has(stripped, "properties")
                     THEN Put(stripped, "properties", inner_props) ELSE stripped,
         inner_props |-> inner_props, doc_id |-> doc_id, true_pk |-> pk3]

\* GraphService.update_entity, step 5: the properties handed to the repository
update_entity_final(pre, true_pk) ==
    LET f1 == IF Truthy(true_pk) THEN Put(pre.inner_props, pk_key, true_pk) ELSE pre.inner_props
        f2 == IF Truthy(pre.doc_id) THEN Put(f1, "documentId", pre.doc_id) ELSE f1
        f3 == IF Has(pre.payload, "label")
              THEN Put(Put(f2, "name", pre.payload["label"]), "label", pre.payload["label"])
              ELSE f2
        node_type == PyOr(Get(pre.payload, "type"), Get(pre.inner_props, "type"))
        clean_type == Title(Strip(node_type))
    IN  IF Truthy(node_type)
        THEN Put(Put(Put(f3, "normType", clean_type), "type", clean_type), "entityType", clean_type)
        ELSE f3

\* GraphService.update_entity's last line: the call into the repository
update_entity_repo_call(entity_id, final_props, true_pk) ==
    update_entity_query(entity_id, final_props, None)

\* GraphService.delete_entity up to the discovery lookup (steps 1 to 3)
delete_entity_pre(entity_id, partition_key) ==
    LET pk1 == IF partition_key = entity_id THEN None ELSE partition_key
        pk2 == IF Truthy(pk1) /\ _is_uuid(pk1) THEN None ELSE pk1
        pk3 == IF Truthy(pk2) /\ EndsWith(pk2, S_csv) THEN _derive_domain(pk2) ELSE pk2
    IN  pk3

NoArgs == [id |-> None]
IdleOp == [name |-> "none", pc |-> "done", a |-> NoArgs, l |-> NoArgs, out |-> "none"]

NewOp(name, pc, a, l) == [name |-> name, pc |-> pc, a |-> a, l |-> l, out |-> "none"]

Idle == op.pc = "done"

\* the awaited _execute_query is the operation's last statement: its result
\* is returned, its exception propagates
ReturnFromQuery ==
    /\ op.pc = "query"
    /\ q.st \in {"ret", "raise"}
    /\ op' = [op EXCEPT !.pc = "done", !.out = IF q.st = "ret" THEN "ok" ELSE "raised"]
    /\ UNCHANGED <<V, E, q>>

\* GraphRepository.create_entity(entity_id, label, properties)
create_entity(entity_id, label, properties) ==
    /\ Idle
    /\ op' = NewOp("create_entity", "query",
                   [id |-> entity_id, properties |-> properties], NoArgs)
    /\ q' = Submit(create_entity_query(entity_id, label, properties))
    /\ UNCHANGED <<V, E>>

\* GraphRepository.update_entity(entity_id, properties, partition_key)
repo_update_entity(entity_id, properties, partition_key) ==
    /\ Idle
    /\ op' = NewOp("repo_update_entity", "query",
                   [id |-> entity_id, properties |-> properties, hint |-> partition_key],
                   NoArgs)
    /\ q' = Submit(update_entity_query(entity_id, properties, partition_key))
    /\ UNCHANGED <<V, E>>

\* GraphService.update_entity(entity_id, payload, partition_key), to its first await
update_entity(entity_id, payload, partition_key) ==
    /\ Idle
    /\ LET pre == update_entity_pre(entity_id, payload, partition_key)
           a == [id |-> entity_id, payload |-> payload, hint |-> partition_key]
       IN  IF ~Truthy(pre.true_pk)
           THEN /\ op' = NewOp("update_entity", "discover", a,
                               [pre |-> pre, true_pk |-> None, found |-> None])
                /\ q' = SubmitRunQuery(discovery_query(entity_id))
           ELSE /\ op' = NewOp("update_entity", "query", a,
                               [pre |-> pre, true_pk |-> pre.true_pk, found |-> None])
                /\ q' = Submit(update_entity_repo_call(
                                  entity_id, update_entity_final(pre, pre.true_pk),
                                  pre.true_pk))
    /\ UNCHANGED <<V, E>>

\* GraphService.update_entity after the discovery lookup (steps 4 and 5)
update_entity_discovered ==
    /\ op.name = "update_entity"
    /\ op.pc = "discover"
    /\ q.st = "ret"
    /\ LET true_pk == IF Truthy(q.result) THEN q.result ELSE None
       IN  /\ op' = [op EXCEPT !.pc = "query", !.l.true_pk = true_pk, !.l.found = q.result]
           /\ q' = Submit(update_entity_repo_call(
                             op.a.id, update_entity_final(op.l.pre, true_pk), true_pk))
    /\ UNCHANGED <<V, E>>

\* GraphService.delete_entity(entity_id, partition_key), to its first await
delete_entity(entity_id, partition_key) ==
    /\ Idle
    /\ LET true_pk == delete_entity_pre(entity_id, partition_key)
           a == [id |-> entity_id, hint |-> partition_key]
       IN  IF ~Truthy(true_pk)
           THEN /\ op' = NewOp("delete_entity", "discover", a,
                               [true_pk |-> None, found |-> None])
                /\ q' = SubmitRunQuery(discovery_query(entity_id))
           ELSE /\ op' = NewOp("delete_entity", "query", a,
                               [true_pk |-> true_pk, found |-> None])
                /\ q' = Submit(delete_entity_query(entity_id, true_pk))
    /\ UNCHANGED <<V, E>>

\* GraphService.delete_entity after the discovery lookup (step 4)
delete_entity_discovered ==
    /\ op.name = "delete_entity"
    /\ op.pc = "discover"
    /\ q.st = "ret"
    /\ LET true_pk == IF Truthy(q.result) THEN q.result ELSE None
       IN  /\ op' = [op EXCEPT !.pc = "query", !.l.true_pk = true_pk, !.l.found = q.result]
           /\ q' = Submit(delete_entity_query(op.a.id, true_pk))
    /\ UNCHANGED <<V, E>>

----------------------------------------------------------------------------
(* The node-write specification: callers issue one operation at a time     *)
(* against an initially empty store.                                       *)

Ids == {S_a}

CreateProps ==
    {[k \in {"name"} |-> S_v1],
     [k \in {"pk", "name"} |-> IF k = "pk" THEN S_car ELSE S_v1],
     [k \in {"partitionKey", "name"} |-> IF k = "partitionKey" THEN S_bus ELSE S_v2]}

UpdateProps ==
    {[k \in {"name"} |-> S_v2],
     [k \in {"pk", "name"} |-> IF k = "pk" THEN S_bus ELSE S_v2]}

Payloads ==
    {[k \in {"properties"} |-> [j \in {"name"} |-> S_v2]],
     [k \in {"properties", "pk"} |->
         IF k = "pk" THEN S_a ELSE [j \in {"pk", "name"} |-> IF j = "pk" THEN S_uuid ELSE S_v2]],
     [k \in {"label", "type"} |-> IF k = "label" THEN S_v1 ELSE <<"c", "a", "s", "e">>]}

Hints == {None, S_uuid, S_car, S_car_log_csv, S_uuid_csv}

PartitionKeys == {None, S_car}

Init ==
    /\ V = {}
    /\ E = {}
    /\ op = IdleOp
    /\ q = IdleFrame

Next ==
    \/ \E id \in Ids, props \in CreateProps : create_entity(id, S_Case, props)
    \/ \E id \in Ids, props \in UpdateProps, pk \in PartitionKeys :
          repo_update_entity(id, props, pk)
    \/ \E id \in Ids, payload \in Payloads, hint \in Hints \cup Ids :
          update_entity(id, payload, hint)
    \/ update_entity_discovered
    \/ \E id \in Ids, hint \in Hints \cup Ids : delete_entity(id, hint)
    \/ delete_entity_discovered
    \/ \E resp \in Responses : Attempt(resp)
    \/ Wake
    \/ \E resp \in Responses : RunQuery(resp)
    \/ ReturnFromQuery

Spec == Init /\ [][Next]_vars

----------------------------------------------------------------------------
(* Properties of the retry policy and of the node writes *)

Last(h) == h[Len(h)]
Front(h) == SubSeq(h, 1, Len(h) - 1)
AllThrottle(h) == \A i \in 1..Len(h) : h[i] = "throttle"

\* C1 (throttling recovery): for every k in 1..5, an _execute_query call
\* whose first k attempts were answered with a rate-limit signal goes on to a
\* further attempt, and when that (k+1)-th attempt is answered with a result
\* the call returns that result (the vertex the upsert produced) and the
\* operation that ends with it reports no error.
C1_ThrottlingRecovery ==
    q.via = "_execute_query" =>
        /\ (Len(q.hist) \in 1..MAX_RETRIES /\ AllThrottle(q.hist))
              => q.st \in {"sleep", "try"}
        /\ (Len(q.hist) \in 2..(MAX_RETRIES + 1) /\ Last(q.hist) = "result"
            /\ AllThrottle(Front(q.hist)))
              => /\ q.st = "ret"
                 /\ q.err = None
                 /\ op.pc = "done" => op.out = "ok"
                 /\ q.query.k = "upsertV"
                       => /\ Len(q.result) = 1
                          /\ q.result[1] \in V
                          /\ q.result[1].id = q.query.id

C1_Witness ==
    /\ q.via = "_execute_query"
    /\ Len(q.hist) = MAX_RETRIES + 1
    /\ AllThrottle(Front(q.hist))
    /\ Last(q.hist) = "result"
    /\ q.query.k = "upsertV"
    /\ op.pc = "done"
    /\ op.out = "ok"

\* C2 (partition immutability): no step changes the stored partition key of
\* a node that exists before and after it.
C2_PartitionImmutable ==
    [][\A v \in V : \A w \in V' : w.id = v.id => w.props["pk"] = v.props["pk"]]_vars

OneNodePerId(Vs) == \A v \in Vs : \A w \in Vs : v.id = w.id => v = w

KeyProps == {"id", "pk", "partitionKey"}

\* the store has just executed the query of a create_entity call
CreateApplied ==
    /\ op.name = "create_entity"
    /\ q.st = "try"
    /\ q'.st = "ret"
    /\ Last(q'.hist) = "result"

\* C3 (upsert without duplication): the store never holds two nodes with one
\* id; a create_entity for an existing id adds no node, leaves its partition
\* key and label alone and sets exactly the supplied non-key properties; a
\* create_entity for an absent id adds exactly one node, whose partition key
\* is the supplied one (pk, else partitionKey, else the id) and whose other
\* properties are the supplied non-key properties.
C3_Upsert ==
    [][/\ OneNodePerId(V')
       /\ CreateApplied =>
            LET id == op.a.id
                given == op.a.properties
                nonkey == {k \in DOMAIN given : k \notin KeyProps}
                old == VById(V, id)
                new == VById(V', id)
            IN  /\ V' \ new = V \ old
                /\ Cardinality(new) = 1
                /\ \A w \in new :
                      /\ \A k \in nonkey : w.props[k] = given[k]
                      /\ IF old # {}
                         THEN \A v \in old :
                                 /\ w.props["pk"] = v.props["pk"]
                                 /\ w.label = v.label
                                 /\ DOMAIN w.props = DOMAIN v.props \cup nonkey
                                 /\ \A k \in DOMAIN v.props \ nonkey : w.props[k] = v.props[k]
                         ELSE /\ w.props["pk"] =
                                    IF "pk" \in DOMAIN given THEN given["pk"]
                                    ELSE IF "partitionKey" \in DOMAIN given
                                         THEN given["partitionKey"]
                                    ELSE id
                              /\ DOMAIN w.props = {"pk"} \cup nonkey
      ]_vars

\* a create_entity that carried another partition key than the node's has
\* returned, and the node has the call's name
C3_Witness ==
    /\ op.name = "create_entity"
    /\ op.pc = "done"
    /\ op.out = "ok"
    /\ Last(q.hist) = "result"
    /\ "pk" \in DOMAIN op.a.properties
    /\ \E v \in V : /\ v.id = op.a.id
                    /\ v.props["pk"] # op.a.properties["pk"]
                    /\ v.props["name"] = op.a.properties["name"]

\* no key, a UUID, or the node's own id
Unusable(hint, entity_id) == hint = None \/ _is_uuid(hint) \/ hint = entity_id

\* GraphService.update_entity / delete_entity has sent its mutating query
ServiceMutating ==
    /\ op.name \in {"update_entity", "delete_entity"}
    /\ op.pc = "query"
    /\ q.via = "_execute_query"

\* C4 (update targets the (id, partitionKey) pair): when update_entity got no
\* usable key and its lookup discovered the stored key P, the mutating query
\* selects the node by id and P.
C4_UpdateTargetsPair ==
    (/\ ServiceMutating
     /\ op.name = "update_entity"
     /\ Unusable(op.a.hint, op.a.id)
     /\ Truthy(op.l.found))
        => /\ q.query.id = op.a.id
           /\ q.query.pk = op.l.found

\* C5 (partition-key guess rejection): the partition key in the mutating
\* query of update_entity / delete_entity is never a value of the rejected
\* shape (a UUID, or the entity id), unless it is the stored key the lookup
\* discovered.
C5_NoRejectedKey ==
    ServiceMutating =>
        ((_is_uuid(q.query.pk) \/ q.query.pk = op.a.id) => q.query.pk = op.l.found)

\* C6 (retry ceiling): an _execute_query call makes at most MAX_RETRIES + 1
\* attempts, sleeps once after every throttled attempt but the last, and when
\* every attempt was throttled it raises that error after exactly
\* MAX_RETRIES + 1 attempts and MAX_RETRIES sleeps, which the caller sees.
C6_RetryCeiling ==
    q.via = "_execute_query" =>
        /\ q.attempts <= MAX_RETRIES + 1
        /\ q.attempts = Len(q.hist)
        /\ q.st \in {"try", "sleep"} => (q.sleeps = q.attempts /\ AllThrottle(q.hist))
        /\ (q.st = "sleep") => q.attempts <= MAX_RETRIES
        /\ (Len(q.hist) = MAX_RETRIES + 1 /\ AllThrottle(q.hist))
              => /\ q.st = "raise"
                 /\ IsRateLimit(q.err)
                 /\ q.sleeps = MAX_RETRIES
        /\ (q.st = "raise" /\ IsRateLimit(q.err))
              => (AllThrottle(q.hist) /\ q.attempts = MAX_RETRIES + 1)
        /\ (q.st = "raise" /\ op.pc = "done") => op.out = "raised"

C6_Witness ==
    /\ q.via = "_execute_query"
    /\ q.st = "raise"
    /\ AllThrottle(q.hist)
    /\ q.attempts = MAX_RETRIES + 1
    /\ q.sleeps = MAX_RETRIES
    /\ op.pc = "done"
    /\ op.out = "raised"

\* C7 (every remote call is wrapped by the retry policy): a remote call whose
\* first attempt was answered with a rate-limit signal is sleeping before
\* its next attempt or making it; it has neither returned nor raised.
C7_EveryCallRetried ==
    (Len(q.hist) = 1 /\ q.hist[1] = "throttle") => q.st \in {"sleep", "try"}

----------------------------------------------------------------------------
(* Reads: GraphRepository.get_stats / get_entities / search_nodes /        *)
(* fetch_combined_graph.                                                   *)

\* one valueMap(true) item, as _clean_gremlin_data rebuilds it
CleanItem(item) ==
    LET original_label == item.label
        real_type == PyOr(Get(item.props, "type"), PyOr(Get(item.props, "normType"), original_label))
    IN  [id |-> item.id, label |-> real_type,
         properties |-> Put(Put(Put(item.props, "originalLabel", original_label),
                                "type", real_type), "label", original_label)]

\* GraphRepository._clean_gremlin_data
_clean_gremlin_data(data_list) == [i \in 1..Len(data_list) |-> CleanItem(data_list[i])]

FETCH_LIMIT == 500
SEARCH_LIMIT == 20

\* the operation raised at an await that is not its last statement
Propagate ==
    /\ op.name \in {"get_stats", "delete_data_by_filename", "_process_csv_graph"}
    /\ op.pc \notin {"done", "query"}
    /\ q.st = "raise"
    /\ op' = [op EXCEPT !.pc = "done", !.out = "raised"]
    /\ UNCHANGED <<V, E, q>>

\* GraphRepository.get_stats, to its first await
get_stats ==
    /\ Idle
    /\ op' = NewOp("get_stats", "nodes", NoArgs,
                   [nodes_res |-> << >>, nodes_how |-> "none", edges_how |-> "none",
                    ret |-> None])
    /\ q' = Submit([k |-> "countV"])
    /\ UNCHANGED <<V, E>>

\* get_stats: g.V().count() returned
get_stats_nodes ==
    /\ op.name = "get_stats"
    /\ op.pc = "nodes"
    /\ q.st = "ret"
    /\ op' = [op EXCEPT !.pc = "edges", !.l.nodes_res = q.result, !.l.nodes_how = Last(q.hist)]
    /\ q' = Submit([k |-> "countE"])
    /\ UNCHANGED <<V, E>>

\* get_stats: g.E().count() returned
get_stats_edges ==
    /\ op.name = "get_stats"
    /\ op.pc = "edges"
    /\ q.st = "ret"
    /\ op' = [op EXCEPT !.pc = "done", !.out = "ok", !.l.edges_how = Last(q.hist),
                        !.l.ret = [nodes |-> IF op.l.nodes_res # << >> THEN op.l.nodes_res[1] ELSE 0,
                                   edges |-> IF q.result # << >> THEN q.result[1] ELSE 0]]
    /\ UNCHANGED <<V, E, q>>

\* GraphRepository.get_entities(label), to its await
get_entities(label) ==
    /\ Idle
    /\ op' = NewOp("get_entities", "read", [id |-> None, label |-> label],
                   [how |-> "none", ret |-> None])
    /\ q' = Submit([k |-> "readV", doc |-> None, limited |-> FALSE, limit |-> 0,
                    labels |-> IF Truthy(label) THEN {label} ELSE {}])
    /\ UNCHANGED <<V, E>>

\* GraphRepository.search_nodes(keyword), to its await
search_nodes(keyword) ==
    /\ Idle
    /\ op' = NewOp("search_nodes", "read", [id |-> None, keyword |-> keyword],
                   [how |-> "none", ret |-> None])
    /\ q' = Submit([k |-> "searchV", keyword |-> keyword, limit |-> SEARCH_LIMIT])
    /\ UNCHANGED <<V, E>>

\* the return of a read that takes an empty result for a failure
read_returned_strict ==
    /\ op.name \in {"get_entities", "search_nodes"}
    /\ op.pc = "read"
    /\ q.st \in {"ret", "raise"}
    /\ op' = IF q.st = "ret" /\ q.result # << >>
             THEN [op EXCEPT !.pc = "done", !.out = "ok", !.l.how = Last(q.hist),
                             !.l.ret = _clean_gremlin_data(q.result)]
             ELSE [op EXCEPT !.pc = "done", !.out = "raised"]
    /\ UNCHANGED <<V, E, q>>

\* get_entities / search_nodes: the query returned, the cleaned list is returned
read_returned ==
    /\ op.name \in {"get_entities", "search_nodes"}
    /\ op.pc = "read"
    /\ q.st \in {"ret", "raise"}
    /\ op' = IF q.st = "ret"
             THEN [op EXCEPT !.pc = "done", !.out = "ok", !.l.how = Last(q.hist),
                             !.l.ret = _clean_gremlin_data(q.result)]
             ELSE [op EXCEPT !.pc = "done", !.out = "raised"]
    /\ UNCHANGED <<V, E, q>>

\* the edge query of fetch_combined_graph
fetch_edge_query(limit, document_id) ==
    [k |-> "readE", doc |-> IF Truthy(document_id) THEN _escape(document_id) ELSE None,
     limited |-> ~Truthy(document_id), limit |-> limit * 2]

\* the except clause of fetch_combined_graph
fetch_failed(o) ==
    [o EXCEPT !.pc = "done", !.out = "ok",
              !.l.ret = [nodes |-> << >>, edges |-> << >>, error |-> q.err]]

\* GraphRepository.fetch_combined_graph(limit, types, document_id), to its first await
fetch_combined_graph(limit, types, document_id) ==
    /\ Idle
    /\ op' = NewOp("fetch_combined_graph", "nodes",
                   [id |-> None, limit |-> limit, types |-> types, document_id |-> document_id],
                   [raw_nodes |-> << >>, nodes_how |-> "none", edges_how |-> "none",
                    ret |-> None])
    /\ q' = Submit([k |-> "readV",
                    doc |-> IF Truthy(document_id) THEN _escape(document_id) ELSE None,
                    limited |-> ~Truthy(document_id), limit |-> limit, labels |-> types])
    /\ UNCHANGED <<V, E>>

\* fetch_combined_graph: the node query returned or raised
fetch_nodes ==
    /\ op.name = "fetch_combined_graph"
    /\ op.pc = "nodes"
    /\ q.st \in {"ret", "raise"}
    /\ IF q.st = "ret"
       THEN /\ op' = [op EXCEPT !.pc = "edges", !.l.raw_nodes = q.result,
                                !.l.nodes_how = Last(q.hist)]
            /\ q' = Submit(fetch_edge_query(op.a.limit, op.a.document_id))
       ELSE /\ op' = fetch_failed(op)
            /\ UNCHANGED q
    /\ UNCHANGED <<V, E>>

\* fetch_combined_graph: the edge query returned or raised
fetch_edges ==
    /\ op.name = "fetch_combined_graph"
    /\ op.pc = "edges"
    /\ q.st \in {"ret", "raise"}
    /\ op' = IF q.st = "ret"
             THEN LET clean_nodes == _clean_gremlin_data(op.l.raw_nodes)
                  IN  [op EXCEPT !.pc = "done", !.out = "ok", !.l.edges_how = Last(q.hist),
                                 !.l.ret = [nodes |-> clean_nodes, edges |-> q.result,
                                            meta |-> [nodes |-> Len(clean_nodes),
                                                      edges |-> Len(q.result)]]]
             ELSE fetch_failed(op)
    /\ UNCHANGED <<V, E, q>>

\* GraphService.get_neighbors(node_id), to its first await
get_neighbors(node_id) ==
    /\ Idle
    /\ op' = NewOp("get_neighbors", "nodes", [id |-> node_id],
                   [nodes_data |-> << >>, ret |-> None])
    /\ q' = SubmitRunQueryList([k |-> "neighborsV", id |-> node_id])
    /\ UNCHANGED <<V, E>>

\* get_neighbors: the node query returned
get_neighbors_nodes ==
    /\ op.name = "get_neighbors"
    /\ op.pc = "nodes"
    /\ q.st = "ret"
    /\ op' = [op EXCEPT !.pc = "edges", !.l.nodes_data = q.result]
    /\ q' = SubmitRunQueryList([k |-> "neighborsE", id |-> op.a.id])
    /\ UNCHANGED <<V, E>>

\* get_neighbors: the edge query returned; nodes and edges are formatted
get_neighbors_edges ==
    /\ op.name = "get_neighbors"
    /\ op.pc = "edges"
    /\ q.st = "ret"
    /\ op' = [op EXCEPT !.pc = "done", !.out = "ok",
                 !.l.ret = [nodes |-> [i \in 1..Len(op.l.nodes_data) |->
                                          [id |-> op.l.nodes_data[i].id,
                                           label |-> op.l.nodes_data[i].label,
                                           properties |-> op.l.nodes_data[i].props]],
                            edges |-> [i \in 1..Len(q.result) |->
                                          [id |-> q.result[i].id, label |-> q.result[i].label,
                                           from |-> q.result[i].from, to |-> q.result[i].to,
                                           properties |-> q.result[i].props]]]]
    /\ UNCHANGED <<V, E, q>>

----------------------------------------------------------------------------
(* The read specification: reads against a store an ingestion has filled. *)

S_Activity == <<"A", "c", "t", "i", "v", "i", "t", "y">>
S_NEXT == <<"N", "E", "X", "T">>

Vertex(id, label, pk, doc, name) ==
    [id |-> id, label |-> label,
     props |-> [k \in {"pk", "documentId", "name", "label"} |->
                   CASE k = "pk" -> pk [] k = "documentId" -> doc [] OTHER -> name]]

Edge(id, from, to, label, doc) ==
    [id |-> id, from |-> from, to |-> to, label |-> label, props |-> [k \in {"doc"} |-> doc]]

SeedV ==
    {Vertex(S_a, S_Case, S_car, S_car_log_csv, S_v1),
     Vertex(S_b, S_Activity, S_car, S_car_log_csv, S_v2),
     Vertex(S_v1, S_Activity, S_bus, S_bus_log_csv, S_v1)}

SeedE ==
    {Edge(<<"e", "1">>, S_a, S_b, S_NEXT, S_car_log_csv),
     Edge(<<"e", "2">>, S_b, S_v1, S_NEXT, S_bus_log_csv)}

\* the stores the reads start from: empty, or holding some of the seed
\* vertices and the seed edges between them
ReadStores ==
    {[V |-> Vs, E |-> {e \in SeedE : \E v \in Vs : \E w \in Vs : e.from = v.id /\ e.to = w.id}] :
        Vs \in {{}, SeedV, {v \in SeedV : v.id # S_v1}}}

InitRead ==
    /\ \E st \in ReadStores : V = st.V /\ E = st.E
    /\ op = IdleOp
    /\ q = IdleFrame

NextRead ==
    \/ get_stats
    \/ get_stats_nodes
    \/ get_stats_edges
    \/ \E label \in {None, S_Activity} : get_entities(label)
    \/ \E keyword \in {S_v1, <<"v">>, <<"v", "'">>} : search_nodes(keyword)
    \/ read_returned
    \/ \E types \in {{}, {S_Case}}, doc \in {None, S_car_log_csv} :
          fetch_combined_graph(FETCH_LIMIT, types, doc)
    \/ fetch_nodes
    \/ fetch_edges
    \/ \E node_id \in {S_a, S_v2} : get_neighbors(node_id)
    \/ get_neighbors_nodes
    \/ get_neighbors_edges
    \/ \E resp \in Responses : Attempt(resp)
    \/ \E resp \in Responses : RunQueryList(resp)
    \/ Wake
    \/ Propagate

SpecRead == InitRead /\ [][NextRead]_vars

\* the last attempt of every _execute_query call so far was the only one
\* answered with a not-found signal
NotFoundEnds(f) ==
    Last(f.hist) = "notfound"
        => /\ f.st = "ret"
           /\ f.result = << >>
           /\ f.err = None
           /\ AllThrottle(Front(f.hist))

\* C8 (not-found on a read is an empty result): a read query answered with a
\* not-found signal makes _execute_query return the empty list at once,
\* without a further attempt and without raising; get_stats then reports 0
\* for that count, fetch_combined_graph an empty list for that part, and
\* get_entities and search_nodes an empty list, each returning normally.
C8_NotFoundIsEmpty ==
    /\ (q.via = "_execute_query" /\ q.hist # << >>) => NotFoundEnds(q)
    /\ (op.pc = "done" /\ op.name = "get_stats" /\ op.out = "ok")
          => /\ op.l.nodes_how = "notfound" => op.l.ret.nodes = 0
             /\ op.l.edges_how = "notfound" => op.l.ret.edges = 0
    /\ (op.pc = "done" /\ op.name = "fetch_combined_graph")
          => /\ op.out = "ok"
             /\ op.l.nodes_how = "notfound" => op.l.ret.nodes = << >>
             /\ op.l.edges_how = "notfound"
                   => (op.l.ret.edges = << >> /\ "error" \notin DOMAIN op.l.ret)
    /\ (op.pc = "done" /\ op.name \in {"get_entities", "search_nodes"}
        /\ Last(q.hist) = "notfound")
          => (op.out = "ok" /\ op.l.ret = << >>)

\* get_stats returned zero counts from a store that holds nodes and edges
C8_Witness ==
    /\ op.name = "get_stats"
    /\ op.pc = "done"
    /\ op.out = "ok"
    /\ op.l.nodes_how = "notfound"
    /\ op.l.edges_how = "notfound"
    /\ op.l.ret = [nodes |-> 0, edges |-> 0]
    /\ V # {}
    /\ E # {}

----------------------------------------------------------------------------
(* Document-scoped deletion: GraphRepository.delete_data_by_filename, run  *)
(* against a store that the two ingestion paths have filled.               *)

BATCH_SIZE == 20

IsAlnum(c) == IsLetter(c) \/ \E i \in 1..10 : c = Digits[i]

\* GraphService._clean_id
_clean_id(prefix, value) ==
    LET clean_val == Strip(value)
    IN  prefix \o <<"_">> \o
        [i \in 1..Len(clean_val) |-> IF IsAlnum(clean_val[i]) THEN clean_val[i] ELSE "_"]

S_general == <<"g", "e", "n", "e", "r", "a", "l">>
S_Document == <<"D", "o", "c", "u", "m", "e", "n", "t">>
S_Concept == <<"C", "o", "n", "c", "e", "p", "t">>
S_processed == <<"p", "r", "o", "c", "e", "s", "s", "e", "d">>
S_raw_text == <<"r", "a", "w", "_", "t", "e", "x", "t">>
S_Fraud == <<"F", "r", "a", "u", "d">>

\* the record with these fields as a dict, keys whose value is None left out
Dict(r) == [k \in {x \in DOMAIN r : r[x] # None} |-> r[k]]

\* GraphService.add_entities, one entity: the create_entity call it makes
add_entities_call(e) ==
    LET raw_label == IF Has(e, "label") THEN e["label"] ELSE S_Concept
        props0 == IF Has(e, "properties") THEN e["properties"] ELSE EmptyDict
        doc_id == PyOr(Get(props0, "documentId"), Get(e, "documentId"))
        is_csv == Truthy(doc_id) /\ EndsWith(doc_id, S_csv)
        target_pk ==
            IF is_csv THEN _derive_domain(doc_id)
            ELSE IF Has(props0, "domain") THEN props0["domain"]
            ELSE IF Has(props0, pk_key) /\ ~_is_uuid(props0[pk_key]) THEN props0[pk_key]
            ELSE S_general
        props1 == IF is_csv
                  THEN Put(Put(props0, "documentId", doc_id), "domain", target_pk)
                  ELSE props0
        props2 == Put(props1, pk_key, target_pk)
        node_type == IF Has(props2, "normType") THEN props2["normType"]
                     ELSE Title(Strip(raw_label))
        props3 == IF Has(props2, "normType") THEN props2
                  ELSE Put(Put(Put(props2, "normType", node_type), "type", node_type),
                           "entityType", node_type)
        node_name == IF Has(props3, "name") THEN props3["name"] ELSE raw_label
        props4 == Put(props3, "name", node_name)
    IN  [id |-> _clean_id(node_type, node_name), label |-> raw_label, properties |-> props4]

\* GraphService.process_narrative: domain of a CSV source
csv_domain(filename) ==
    IF Positions(filename, "_") # {} THEN SplitUnderscoreFirst(filename) ELSE S_general

\* GraphService._process_csv_graph: the Document node of a CSV source
csv_doc_node(filename) ==
    [id |-> filename, label |-> filename, type |-> S_Document,
     properties |-> Dict([normType |-> S_Document, filename |-> filename,
                          documentId |-> filename, status |-> S_processed,
                          pk |-> csv_domain(filename)])]

\* GraphService._process_csv_graph: a context node of a CSV source
csv_context_node(filename, node_type, val) ==
    [id |-> _clean_id(node_type, val), label |-> val, type |-> node_type,
     properties |-> Dict([name |-> val, normType |-> node_type, documentId |-> filename,
                          pk |-> csv_domain(filename)])]

\* DocumentProcessor._parse_filename: (domain, documentId)
_parse_filename(filename) ==
    LET base == IF Positions(filename, ".") # {} THEN RSplitDotFirst(filename) ELSE filename
        cut == Min(Positions(base, "_"))
    IN  IF Positions(base, "_") # {}
        THEN <<SubSeq(base, 1, cut - 1), SubSeq(base, cut + 1, Len(base))>>
        ELSE <<S_general, base>>

\* DocumentProcessor.process_text: the Document node of a text source (its
\* upload date and counts are left out)
text_doc_node(filename) ==
    [id |-> filename, label |-> filename, type |-> S_Document,
     properties |-> Dict([filename |-> filename, status |-> S_processed,
                          normType |-> S_Document,
                          domain |-> _parse_filename(filename)[1],
                          documentId |-> _parse_filename(filename)[2]])]

\* str.startswith
StartsWith(s, prefix) == Len(s) >= Len(prefix) /\ SubSeq(s, 1, Len(prefix)) = prefix

\* str.strip(c)
RECURSIVE StripEnds(_, _)
StripEnds(s, c) ==
    IF s = << >> THEN s
    ELSE IF Head(s) = c THEN StripEnds(Tail(s), c)
    ELSE IF s[Len(s)] = c THEN StripEnds(SubSeq(s, 1, Len(s) - 1), c)
    ELSE s

\* DocumentProcessor._standardize_label: the prefixes, in the order of the loop
prefixes == <<<<"A", "c", "t", "i", "v", "i", "t", "y", " ">>, <<"O", "u", "t", "c", "o", "m", "e", " ">>, <<"S", "t", "a", "t", "u", "s", " ">>, <<"E", "v", "e", "n", "t", " ">>, <<"J", "o", "b", " ">>, <<"A", "c", "t", "i", "o", "n", " ">>>>

\* for prefix in prefixes: if clean.lower().startswith(prefix.lower()):
\*     clean = clean[len(prefix):].strip()
RECURSIVE StripPrefixes(_, _)
StripPrefixes(clean, i) ==
    IF i > Len(prefixes) THEN clean
    ELSE StripPrefixes(IF StartsWith(Lower(clean), Lower(prefixes[i]))
                       THEN Strip(SubSeq(clean, Len(prefixes[i]) + 1, Len(clean)))
                       ELSE clean,
                       i + 1)

\* DocumentProcessor._standardize_label
_standardize_label(label) ==
    IF ~Truthy(label) THEN <<"U", "n", "k", "n", "o", "w", "n">>
    ELSE LET clean == StripPrefixes(Strip(label), 1)
         IN  IF Lower(clean) = <<"c", "a", "s", "e">> THEN <<"C", "a", "s", "e">> ELSE Title(clean)

\* DocumentProcessor._generate_id
_generate_id(label) ==
    LET std_label == Lower(_standardize_label(label))
    IN  StripEnds([i \in 1..Len(std_label) |->
                      IF IsAlnum(std_label[i]) \/ std_label[i] \in {"_", "-"}
                      THEN std_label[i] ELSE "_"],
                  "_")

\* DocumentProcessor.process_text: an extracted entity of a text source
text_entity(filename, final_label, clean_type) ==
    [id |-> _generate_id(final_label), label |-> final_label, type |-> clean_type,
     properties |-> Dict([documentId |-> _parse_filename(filename)[2],
                          domain |-> _parse_filename(filename)[1],
                          normType |-> clean_type])]

\* the vertices add_entities(entities) leaves in an empty store when every
\* query is answered with a result and the entities' ids differ
Ingested(entities) ==
    UNION {LET c == add_entities_call(entities[i])
           IN  (CHOOSE o \in StoreUpsertV(create_entity_query(c.id, c.label, c.properties),
                                          {}, {}) : TRUE).V : i \in 1..Len(entities)}

\* delete_data_by_filename(filename), to its first await
delete_data_by_filename(filename) ==
    /\ Idle
    /\ op' = NewOp("delete_data_by_filename", "count",
                   [id |-> None, filename |-> filename],
                   [before |-> V])
    /\ q' = Submit([k |-> "countDoc", doc |-> _escape(filename)])
    /\ UNCHANGED <<V, E>>

\* delete_data_by_filename: the count query returned
delete_counted ==
    /\ op.name = "delete_data_by_filename"
    /\ op.pc = "count"
    /\ q.st = "ret"
    /\ IF q.result = << >> \/ q.result[1] = 0
       THEN /\ op' = [op EXCEPT !.pc = "query"]
            /\ q' = Submit([k |-> "dropVid", id |-> op.a.filename])
       ELSE /\ op' = [op EXCEPT !.pc = "drop"]
            /\ q' = Submit([k |-> "dropDocBatch", doc |-> _escape(op.a.filename),
                            limit |-> BATCH_SIZE])
    /\ UNCHANGED <<V, E>>

\* delete_data_by_filename: the batch drop returned; asyncio.sleep(0.2) begins
delete_dropped ==
    /\ op.name = "delete_data_by_filename"
    /\ op.pc = "drop"
    /\ q.st = "ret"
    /\ op' = [op EXCEPT !.pc = "pause"]
    /\ UNCHANGED <<V, E, q>>

\* delete_data_by_filename: the pause is over, the loop goes round
delete_paused ==
    /\ op.name = "delete_data_by_filename"
    /\ op.pc = "pause"
    /\ op' = [op EXCEPT !.pc = "count"]
    /\ q' = Submit([k |-> "countDoc", doc |-> _escape(op.a.filename)])
    /\ UNCHANGED <<V, E>>

\* another ingestion flow's create_entity, executed by the store meanwhile
concurrent_create_entity(e) ==
    /\ LET c == add_entities_call(e)
       IN  \E out \in StoreUpsertV(create_entity_query(c.id, c.label, c.properties), V, E) :
              /\ V' = out.V
              /\ E' = out.E
    /\ UNCHANGED <<op, q>>

\* how many nodes more than one batch the CSV source may have
Overflow == 1

\* the CSV source's context nodes: with its Document node they make no batch,
\* exactly one batch, or up to Overflow nodes more
ContextSizes == {0, 1} \cup ((BATCH_SIZE - 1)..(BATCH_SIZE - 1 + Overflow))

\* the i-th context value of the CSV source
ContextVal(i) == <<"n", Digits[(i \div 10) + 1], Digits[(i % 10) + 1]>>

CsvBatch(filename, n) ==
    <<csv_doc_node(filename)>> \o
    [i \in 1..n |-> csv_context_node(filename, S_Activity, ContextVal(i))]

TextBatch(filename) ==
    <<text_doc_node(filename), text_entity(filename, S_Fraud, S_Concept)>>

Filenames == {S_car_log_csv, S_raw_text}

InitDel ==
    /\ \E n \in ContextSizes :
          V = Ingested(CsvBatch(S_car_log_csv, n)) \cup Ingested(TextBatch(S_raw_text))
    /\ E = {}
    /\ op = IdleOp
    /\ q = IdleFrame

DeleteSteps ==
    \/ delete_counted
    \/ delete_dropped
    \/ delete_paused
    \/ \E resp \in Responses : Attempt(resp)
    \/ Wake
    \/ ReturnFromQuery
    \/ Propagate

NextDel ==
    \/ \E filename \in Filenames : delete_data_by_filename(filename)
    \/ DeleteSteps

SpecDel == InitDel /\ [][NextDel]_vars

NextDelLive ==
    \/ NextDel
    \/ concurrent_create_entity(csv_context_node(S_car_log_csv, S_Activity, ContextVal(1)))

\* the event loop resumes the deleting coroutine whenever it can run
SpecDelLive == InitDel /\ [][NextDelLive]_vars /\ WF_vars(DeleteSteps)

DocumentNodeFor(v, D) ==
    /\ Get(v.props, "normType") = S_Document
    /\ Get(v.props, "filename") = D \/ Get(v.props, "documentId") = D

\* C9 (document-scoped deletion): when delete_data_by_filename(D) has
\* returned normally, no node has documentId D, no Document node for D is
\* left, and every node that had another documentId when the call began is
\* still there with the same properties.
C9_DocumentScopedDeletion ==
    (op.name = "delete_data_by_filename" /\ op.pc = "done" /\ op.out = "ok")
        => /\ \A v \in V : Get(v.props, "documentId") # op.a.filename
           /\ \A v \in V : ~DocumentNodeFor(v, op.a.filename)
           /\ \A v \in op.l.before : Get(v.props, "documentId") # op.a.filename => v \in V

\* C10 (batched deletion converges or raises): every delete_data_by_filename
\* call that has begun comes to an end, returning or raising.
C10_DeletionTerminates ==
    (op.name = "delete_data_by_filename" /\ op.pc # "done") ~> (op.pc = "done")

----------------------------------------------------------------------------
(* CSV ingestion: GraphService.process_narrative / _process_csv_graph, the  *)
(* batch it builds from a dataframe, and the relationship operations.       *)


\* any(word in text for word in words)
InText(text, words) == \E w \in words : Contains(text, w)

IsDigit(c) == \E i \in 1..10 : c = Digits[i]
DigitVal(c) == (CHOOSE i \in 1..10 : c = Digits[i]) - 1


CAUSE_LABELS == {<<"C", "A", "U", "S", "E">>, <<"L", "E", "D", "_", "T", "O">>, <<"C", "A", "U", "S", "E", "S">>, <<"C", "A", "U", "S", "E", "D">>, <<"T", "R", "I", "G", "G", "E", "R", "E", "D">>, <<"S", "O", "U", "R", "C", "E", "_", "O", "F">>, <<"P", "R", "E", "C", "E", "D", "E", "D", "_", "B", "Y">>}
EFFECT_LABELS == {<<"E", "F", "F", "E", "C", "T">>, <<"R", "E", "S", "U", "L", "T", "E", "D", "_", "I", "N">>, <<"R", "E", "S", "U", "L", "T", "S", "_", "I", "N">>, <<"I", "M", "P", "A", "C", "T", "E", "D">>, <<"A", "F", "F", "E", "C", "T", "E", "D">>, <<"C", "O", "N", "S", "E", "Q", "U", "E", "N", "C", "E", "_", "O", "F">>, <<"H", "A", "S", "_", "E", "F", "F", "E", "C", "T">>}
SEQUENCE_LABELS == {<<"N", "E", "X", "T">>, <<"N", "E", "X", "T", "_", "S", "T", "E", "P">>, <<"F", "O", "L", "L", "O", "W", "E", "D", "_", "B", "Y">>, <<"P", "R", "E", "C", "E", "D", "E", "S">>, <<"T", "H", "E", "N">>}

S_Cause == <<"C", "a", "u", "s", "e">>
S_Effect == <<"E", "f", "f", "e", "c", "t">>
S_Process == <<"P", "r", "o", "c", "e", "s", "s">>

\* GraphService._determine_risk_category
_determine_risk_category(label) ==
    LET clean == Strip(Upper(label))
    IN  IF clean \in CAUSE_LABELS THEN S_Cause
        ELSE IF clean \in EFFECT_LABELS THEN S_Effect
        ELSE IF clean \in SEQUENCE_LABELS THEN S_Process
        ELSE << >>

high_risk_keywords == {<<"f", "a", "i", "l">>, <<"e", "r", "r", "o", "r">>, <<"t", "i", "m", "e", "o", "u", "t">>, <<"r", "e", "j", "e", "c", "t">>, <<"d", "e", "n", "i", "e", "d">>, <<"f", "r", "a", "u", "d">>, <<"d", "i", "v", "e", "r", "g", "e", "n", "t">>, <<"a", "n", "o", "m", "a", "l", "y">>, <<"b", "r", "e", "a", "c", "h">>, <<"c", "l", "a", "i", "m">>, <<"l", "o", "s", "s">>, <<"c", "o", "m", "p", "l", "a", "i", "n", "t">>, <<"d", "a", "m", "a", "g", "e">>, <<"t", "h", "e", "f", "t">>, <<"c", "o", "l", "l", "i", "s", "i", "o", "n">>, <<"d", "e", "c", "l", "i", "n", "e", "d">>, <<"n", "o", "_", "r", "e", "s", "u", "l", "t">>, <<"f", "a", "i", "l", "u", "r", "e">>}

terminal_keywords == {<<"c", "l", "o", "s", "e", "d">>, <<"b", "l", "o", "c", "k">>, <<"s", "u", "s", "p", "e", "n", "d">>, <<"l", "o", "c", "k", "e", "d">>, <<"r", "e", "j", "e", "i", "t", "a", "d", "o">>, <<"t", "e", "r", "m", "i", "n", "a", "t", "e", "d">>, <<"c", "l", "e", "a", "r", "e", "d">>, <<"r", "e", "s", "o", "l", "u", "t", "i", "o", "n">>}

\* the analysis with the terminal keywords tried first
_ai_ingestion_analysis_terminal_first(activity_label) ==
    LET text == Lower(activity_label)
    IN  IF InText(text, terminal_keywords)
        THEN [riskLevel |-> "Medium", isCause |-> "False", isEffect |-> "True"]
        ELSE IF InText(text, high_risk_keywords)
        THEN [riskLevel |-> "High", isCause |-> "True", isEffect |-> "False"]
        ELSE [riskLevel |-> "Low", isCause |-> "False", isEffect |-> "False"]

\* GraphService._ai_ingestion_analysis (its summary text is left out)
_ai_ingestion_analysis(activity_label) ==
    LET text == Lower(activity_label)
    IN  IF InText(text, high_risk_keywords)
        THEN [riskLevel |-> "High", isCause |-> "True", isEffect |-> "False"]
        ELSE IF InText(text, terminal_keywords)
        THEN [riskLevel |-> "Medium", isCause |-> "False", isEffect |-> "True"]
        ELSE [riskLevel |-> "Low", isCause |-> "False", isEffect |-> "False"]

\* re.match(r'^<letter>\d+$', v)
IsCoded(v, letter) ==
    /\ Len(v) >= 2
    /\ v[1] = letter
    /\ \A i \in 2..Len(v) : IsDigit(v[i])

\* re.match(r'\d{4}-\d{2}-\d{2}', v)
IsDateLike(v) ==
    /\ Len(v) >= 10
    /\ \A i \in {1, 2, 3, 4, 6, 7, 9, 10} : IsDigit(v[i])
    /\ v[5] = "-"
    /\ v[8] = "-"

\* GraphService._detect_type
_detect_type(header, value) ==
    LET h == Lower(header)
        v == Lower(value)
    IN
        IF InText(h, {<<"c", "u", "s", "t", "o", "m", "e", "r">>}) THEN <<"C", "u", "s", "t", "o", "m", "e", "r">> ELSE
        IF InText(h, {<<"v", "e", "n", "d", "o", "r">>}) THEN <<"V", "e", "n", "d", "o", "r">> ELSE
        IF InText(h, {<<"b", "r", "a", "n", "c", "h">>}) THEN <<"B", "r", "a", "n", "c", "h">> ELSE
        IF InText(h, {<<"a", "c", "t", "i", "v", "i", "t", "y">>, <<"a", "c", "t", "i", "o", "n">>}) THEN <<"A", "c", "t", "i", "v", "i", "t", "y">> ELSE
        IF InText(h, {<<"t", "i", "m", "e">>, <<"d", "a", "t", "e">>}) THEN <<"T", "i", "m", "e">> ELSE
        IF InText(h, {<<"s", "t", "a", "t", "e">>}) THEN <<"S", "t", "a", "t", "e">> ELSE
        IF InText(h, {<<"r", "e", "g", "i", "o", "n">>}) THEN <<"R", "e", "g", "i", "o", "n">> ELSE
        IF InText(h, {<<"a", "c", "c", "o", "u", "n", "t">>}) THEN (IF InText(h, {<<"t", "y", "p", "e">>}) THEN <<"A", "c", "c", "o", "u", "n", "t", "T", "y", "p", "e">> ELSE <<"A", "c", "c", "o", "u", "n", "t">>) ELSE
        IF InText(h, {<<"p", "r", "o", "d", "u", "c", "t">>}) THEN <<"P", "r", "o", "d", "u", "c", "t">> ELSE
        IF InText(h, {<<"b", "a", "l", "a", "n", "c", "e">>, <<"a", "m", "o", "u", "n", "t">>, <<"i", "n", "r">>, <<"$">>}) THEN (IF InText(h, {<<"c", "l", "a", "i", "m">>}) THEN <<"C", "l", "a", "i", "m", "A", "m", "o", "u", "n", "t">> ELSE IF InText(h, {<<"l", "o", "a", "n">>}) THEN <<"L", "o", "a", "n", "A", "m", "o", "u", "n", "t">> ELSE IF InText(h, {<<"p", "r", "e", "m", "i", "u", "m">>}) THEN <<"P", "r", "e", "m", "i", "u", "m", "A", "m", "o", "u", "n", "t">> ELSE <<"A", "m", "o", "u", "n", "t">>) ELSE
        IF InText(h, {<<"l", "o", "a", "n", "_", "t", "y", "p", "e">>}) THEN <<"L", "o", "a", "n", "T", "y", "p", "e">> ELSE
        IF InText(h, {<<"d", "e", "d", "u", "c", "t", "i", "b", "l", "e">>}) THEN <<"D", "e", "d", "u", "c", "t", "i", "b", "l", "e">> ELSE
        IF InText(h, {<<"p", "r", "e", "m", "i", "u", "m">>}) THEN <<"P", "r", "e", "m", "i", "u", "m", "A", "m", "o", "u", "n", "t">> ELSE
        IF InText(h, {<<"c", "u", "s", "t", "o", "m", "e", "r", "_", "l", "i", "f", "e", "t", "i", "m", "e", "_", "v", "a", "l", "u", "e">>, <<"c", "l", "v">>}) THEN <<"C", "u", "s", "t", "o", "m", "e", "r", "L", "i", "f", "e", "t", "i", "m", "e", "V", "a", "l", "u", "e">> ELSE
        IF InText(h, {<<"j", "o", "b">>}) THEN <<"J", "o", "b">> ELSE
        IF InText(h, {<<"m", "a", "r", "i", "t", "a", "l">>}) THEN <<"M", "a", "r", "i", "t", "a", "l", "S", "t", "a", "t", "u", "s">> ELSE
        IF InText(h, {<<"a", "g", "e">>, <<"s", "e", "x">>, <<"g", "e", "n", "d", "e", "r">>}) THEN <<"D", "e", "m", "o", "g", "r", "a", "p", "h", "i", "c", "s">> ELSE
        IF InText(h, {<<"d", "r", "i", "v", "e", "r", "r", "a", "t", "i", "n", "g">>, <<"e", "x", "p", "e", "r", "i", "e", "n", "c", "e">>}) THEN <<"D", "r", "i", "v", "e", "r", "P", "r", "o", "f", "i", "l", "e">> ELSE
        IF InText(h, {<<"a", "g", "e", "n", "t">>, <<"r", "e", "p", "n", "u", "m", "b", "e", "r">>}) THEN <<"A", "g", "e", "n", "t">> ELSE
        IF InText(h, {<<"o", "u", "t", "c", "o", "m", "e">>}) THEN <<"O", "u", "t", "c", "o", "m", "e">> ELSE
        IF InText(h, {<<"c", "h", "a", "n", "n", "e", "l">>}) THEN <<"C", "h", "a", "n", "n", "e", "l">> ELSE
        IF InText(h, {<<"n", "p", "s">>}) THEN <<"N", "P", "S">> ELSE
        IF InText(h, {<<"c", "l", "a", "i", "m", "_", "t", "y", "p", "e">>}) THEN <<"C", "l", "a", "i", "m", "T", "y", "p", "e">> ELSE
        IF InText(h, {<<"f", "i", "l", "e", "_", "n", "a", "m", "e">>, <<"d", "o", "c", "u", "m", "e", "n", "t">>}) THEN <<"D", "o", "c", "u", "m", "e", "n", "t">> ELSE
        IF InText(h, {<<"p", "a", "g", "e", "s">>}) THEN <<"P", "a", "g", "e", "C", "o", "u", "n", "t">> ELSE
        IF InText(h, {<<"s", "t", "a", "t", "u", "s">>}) THEN <<"S", "t", "a", "t", "u", "s">> ELSE
        IF InText(h, {<<"p", "o", "l", "i", "c", "y">>}) THEN (IF InText(h, {<<"t", "y", "p", "e">>}) THEN <<"P", "o", "l", "i", "c", "y", "T", "y", "p", "e">> ELSE <<"P", "o", "l", "i", "c", "y">>) ELSE
        IF InText(h, {<<"f", "r", "a", "u", "d">>}) THEN <<"F", "r", "a", "u", "d", "F", "l", "a", "g">> ELSE
        IF InText(h, {<<"r", "i", "s", "k">>}) THEN <<"R", "i", "s", "k", "L", "e", "v", "e", "l">> ELSE
        IF InText(h, {<<"a", "c", "c", "i", "d", "e", "n", "t">>, <<"i", "n", "c", "i", "d", "e", "n", "t">>}) THEN (IF InText(h, {<<"t", "y", "p", "e">>}) THEN <<"I", "n", "c", "i", "d", "e", "n", "t", "T", "y", "p", "e">> ELSE IF InText(h, {<<"s", "e", "v", "e", "r", "i", "t", "y">>}) THEN <<"I", "n", "c", "i", "d", "e", "n", "t", "S", "e", "v", "e", "r", "i", "t", "y">> ELSE IF InText(h, {<<"p", "r", "e", "v", "i", "o", "u", "s">>}) THEN <<"I", "n", "c", "i", "d", "e", "n", "t", "H", "i", "s", "t", "o", "r", "y">> ELSE <<"I", "n", "c", "i", "d", "e", "n", "t">>) ELSE
        IF InText(h, {<<"f", "a", "u", "l", "t">>}) THEN <<"F", "a", "u", "l", "t">> ELSE
        IF InText(h, {<<"a", "u", "t", "h", "o", "r", "i", "t", "i", "e", "s">>, <<"p", "o", "l", "i", "c", "e">>}) THEN <<"A", "u", "t", "h", "o", "r", "i", "t", "y">> ELSE
        IF InText(h, {<<"w", "i", "t", "n", "e", "s", "s">>}) THEN <<"W", "i", "t", "n", "e", "s", "s">> ELSE
        IF InText(h, {<<"v", "e", "h", "i", "c", "l", "e">>, <<"a", "u", "t", "o">>, <<"c", "a", "r">>}) THEN (IF InText(h, {<<"c", "l", "a", "s", "s">>}) THEN <<"V", "e", "h", "i", "c", "l", "e", "C", "l", "a", "s", "s">> ELSE IF InText(h, {<<"m", "a", "k", "e">>}) THEN <<"V", "e", "h", "i", "c", "l", "e", "M", "a", "k", "e">> ELSE IF InText(h, {<<"m", "o", "d", "e", "l">>}) THEN <<"V", "e", "h", "i", "c", "l", "e", "M", "o", "d", "e", "l">> ELSE IF InText(h, {<<"y", "e", "a", "r">>, <<"a", "g", "e">>}) THEN <<"V", "e", "h", "i", "c", "l", "e", "A", "g", "e">> ELSE IF InText(h, {<<"s", "i", "z", "e">>}) THEN <<"V", "e", "h", "i", "c", "l", "e", "S", "i", "z", "e">> ELSE <<"V", "e", "h", "i", "c", "l", "e">>) ELSE
        IF InText(h, {<<"d", "e", "v", "i", "c", "e">>}) THEN <<"D", "e", "v", "i", "c", "e">> ELSE
        IF InText(h, {<<"s", "e", "n", "s", "o", "r">>}) THEN <<"S", "e", "n", "s", "o", "r", "V", "a", "l", "u", "e">> ELSE
        IF InText(h, {<<"a", "l", "a", "r", "m">>}) THEN <<"A", "l", "a", "r", "m", "C", "l", "a", "s", "s">> ELSE
        IF IsCoded(v, "b") THEN <<"B", "r", "a", "n", "c", "h">> ELSE
        IF IsCoded(v, "c") THEN <<"C", "u", "s", "t", "o", "m", "e", "r">> ELSE
        IF IsDateLike(v) THEN <<"T", "i", "m", "e">> ELSE
        <<"A", "t", "t", "r", "i", "b", "u", "t", "e">>

\* Op applied to the value of v, v evaluated once
Bind(v, Op(_)) == CHOOSE r \in {Op(x) : x \in {v}} : TRUE

\* df.columns = [c.strip().lower().replace(" ", "_") for c in df.columns]
NormalizeHeader(c) ==
    LET s == Lower(Strip(c))
    IN  [i \in 1..Len(s) |-> IF s[i] = " " THEN "_" ELSE s[i]]

\* next((c for c in columns if <a word of words in c>), dflt)
FirstColumn(columns, words, dflt) ==
    LET hits == {i \in 1..Len(columns) : InText(columns[i], words)}
    IN  IF hits = {} THEN dflt ELSE columns[Min(hits)]

case_col(columns) == FirstColumn(columns, {<<"c", "a", "s", "e">>, <<"i", "d">>}, columns[1])
time_col(columns) == FirstColumn(columns, {<<"t", "i", "m", "e">>, <<"d", "a", "t", "e">>}, None)

\* pd.to_datetime of a 'YYYY-MM-DD' cell
to_datetime(s) ==
    [y |-> 1000 * DigitVal(s[1]) + 100 * DigitVal(s[2]) + 10 * DigitVal(s[3]) + DigitVal(s[4]),
     m |-> 10 * DigitVal(s[6]) + DigitVal(s[7]),
     d |-> 10 * DigitVal(s[9]) + DigitVal(s[10])]

Pad2(n) == <<Digits[(n \div 10) + 1], Digits[(n % 10) + 1]>>

\* str(Timestamp)
TimestampStr(t) ==
    Pad2(t.y \div 100) \o Pad2(t.y % 100) \o <<"-">> \o Pad2(t.m) \o <<"-">> \o Pad2(t.d)
        \o <<" ", "0", "0", ":", "0", "0", ":", "0", "0">>

\* the characters of the modelled cells, in code point order
CharOrder ==
    <<" ", "$", "-", ".">> \o Digits \o <<":">> \o UpperCase \o <<"_">> \o LowerCase

Ord(c) == CHOOSE i \in 1..Len(CharOrder) : CharOrder[i] = c

\* a < b for two strings
LexLess(a, b) ==
    \E k \in 0..Min({Len(a), Len(b)}) :
        /\ \A j \in 1..k : a[j] = b[j]
        /\ \/ k = Len(a) /\ k < Len(b)
           \/ k < Len(a) /\ k < Len(b) /\ Ord(a[k + 1]) < Ord(b[k + 1])

TimestampLess(s, t) ==
    \/ s.y < t.y
    \/ s.y = t.y /\ s.m < t.m
    \/ s.y = t.y /\ s.m = t.m /\ s.d < t.d

\* the dataframe as _process_csv_graph reads it: normalised columns, rows
\* with their index label idx, and the time column converted
ReadFrame(df) ==
    LET columns == [i \in 1..Len(df.columns) |-> NormalizeHeader(df.columns[i])]
        tc == time_col(columns)
        ti == IF tc = None THEN 0 ELSE Min({i \in 1..Len(columns) : columns[i] = tc})
        cc == case_col(columns)
        ci == Min({i \in 1..Len(columns) : columns[i] = cc})
    IN  [columns |-> columns, case_col |-> cc, time_col |-> tc, ci |-> ci, ti |-> ti,
         rows |-> [i \in 1..Len(df.rows) |->
                     [idx |-> i - 1, cells |-> df.rows[i],
                      ts |-> IF ti = 0 THEN [y |-> 0, m |-> 0, d |-> 0]
                             ELSE to_datetime(df.rows[i][ti])]]]

\* the sort order of df.sort_values(by=[case_col, time_col])
RowBefore(r, s, ci) ==
    \/ LexLess(r.cells[ci], s.cells[ci])
    \/ r.cells[ci] = s.cells[ci] /\ TimestampLess(r.ts, s.ts)

\* r put behind the rows that do not sort after it
InsertRow(sorted, r, ci) ==
    LET later == {i \in 1..Len(sorted) : RowBefore(r, sorted[i], ci)}
        at == IF later = {} THEN Len(sorted) + 1 ELSE Min(later)
    IN  SubSeq(sorted, 1, at - 1) \o <<r>> \o SubSeq(sorted, at, Len(sorted))

\* df.sort_values(by=[case_col, time_col]): a stable sort on the two keys
RECURSIVE sort_values(_, _)
sort_values(rows, ci) ==
    IF rows = << >> THEN << >>
    ELSE InsertRow(sort_values(SubSeq(rows, 1, Len(rows) - 1), ci), rows[Len(rows)], ci)

\* str(row[col])
CellStr(row, i, frame) ==
    IF i = frame.ti THEN TimestampStr(row.ts) ELSE row.cells[i]

\* str(row.get(time_col, ''))[:19] if time_col else ''
time_val(row, frame) ==
    IF frame.time_col = None THEN << >> ELSE SubSeq(TimestampStr(row.ts), 1, 19)

\* _process_csv_graph: the Case node of a row
csv_case_node(filename, case_val) ==
    [id |-> _clean_id(S_Case, case_val), label |-> case_val, type |-> S_Case,
     properties |-> Dict([name |-> case_val, normType |-> S_Case,
                          domain |-> csv_domain(filename), documentId |-> filename,
                          pk |-> csv_domain(filename)])]

\* a relationship of the batch without and with an id of its own
Rel(from, to, label, properties) ==
    [k \in {"from", "to", "label", "properties"} |->
        CASE k = "from" -> from [] k = "to" -> to [] k = "label" -> label
          [] OTHER -> properties]

RelWithId(id, from, to, label, properties) ==
    [k \in {"id", "from", "to", "label", "properties"} |->
        CASE k = "id" -> id [] k = "from" -> from [] k = "to" -> to [] k = "label" -> label
          [] OTHER -> properties]

\* all_entities_map, all_relationships, created_edges and the two trackers
\* before the first row
EmptyBatch(filename) ==
    [ids |-> <<filename>>,
     ent |-> [k \in {filename} |-> csv_doc_node(filename)],
     rels |-> << >>,
     created |-> {},
     tracker |-> EmptyDict,
     labels |-> EmptyDict]

\* all_entities_map[e.id] = e, for an id not in the map
AddEntity(st, e) ==
    [st EXCEPT !.ids = Append(@, e.id), !.ent = Put(@, e.id, e)]

\* if key not in created_edges: all_relationships.append(r); created_edges.add(key)
AddRel(st, key, r) ==
    IF key \in st.created THEN st
    ELSE [st EXCEPT !.rels = Append(@, r), !.created = @ \cup {key}]

\* B. the Case node and the Document -> Case edge
CaseStep(st, filename, case_val) ==
    LET case_id == _clean_id(S_Case, case_val)
    IN  IF case_id \in DOMAIN st.ent THEN st
        ELSE AddRel(AddEntity(st, csv_case_node(filename, case_val)),
                    filename \o <<"_">> \o case_id \o <<"_", "C", "O", "N", "T", "A", "I", "N", "S">>,
                    Rel(filename, case_id, <<"C", "O", "N", "T", "A", "I", "N", "S">>, [k \in {"doc"} |-> filename]))

\* D. the columns of one row: context nodes and Document -> context edges
RECURSIVE ColumnsLoop(_, _, _, _, _)
ColumnsLoop(rs, i, row, frame, filename) ==
    IF i > Len(frame.columns) THEN rs
    ELSE LET col == frame.columns[i]
             val == Strip(CellStr(row, i, frame))
             node_type == _detect_type(col, val)
             node_id == _clean_id(node_type, val)
             skipped == \/ val = << >>
                        \/ Lower(val) = <<"n", "a", "n">>
                        \/ col = frame.case_col
                        \/ val \in frame.banlist
                        \/ node_type = <<"T", "i", "m", "e">>
             st1 == IF node_id \in DOMAIN rs.st.ent THEN rs.st
                    ELSE AddRel(AddEntity(rs.st, csv_context_node(filename, node_type, val)),
                                filename \o <<"_">> \o node_id \o <<"_", "H", "A", "S">>,
                                Rel(filename, node_id, <<"H", "A", "S", "_">> \o Upper(node_type),
                                    [k \in {"doc"} |-> filename]))
             next == [st |-> st1,
                      current_activity_id |->
                          IF node_type = S_Activity THEN node_id ELSE rs.current_activity_id,
                      current_activity_label |->
                          IF node_type = S_Activity THEN val ELSE rs.current_activity_label,
                      row_context_nodes |-> Append(rs.row_context_nodes,
                                                   [id |-> node_id, type |-> node_type, val |-> val])]
         IN  Bind(IF skipped THEN rs ELSE next,
                  LAMBDA rs1 : ColumnsLoop(rs1, i + 1, row, frame, filename))

\* E. the label of a Case -> context edge
rel_label(ctx_type) ==
    IF ctx_type \in {<<"C", "u", "s", "t", "o", "m", "e", "r">>} THEN <<"O", "W", "N", "E", "D", "_", "B", "Y">> ELSE
    IF ctx_type \in {<<"A", "g", "e", "n", "t">>} THEN <<"A", "S", "S", "I", "G", "N", "E", "D", "_", "T", "O">> ELSE
    IF ctx_type \in {<<"D", "e", "m", "o", "g", "r", "a", "p", "h", "i", "c", "s">>, <<"M", "a", "r", "i", "t", "a", "l", "S", "t", "a", "t", "u", "s">>, <<"J", "o", "b">>, <<"D", "r", "i", "v", "e", "r", "P", "r", "o", "f", "i", "l", "e">>} THEN <<"H", "A", "S", "_", "P", "R", "O", "F", "I", "L", "E">> ELSE
    IF ctx_type \in {<<"S", "t", "a", "t", "e">>, <<"R", "e", "g", "i", "o", "n">>, <<"L", "o", "c", "a", "t", "i", "o", "n">>, <<"B", "r", "a", "n", "c", "h">>} THEN <<"L", "O", "C", "A", "T", "E", "D", "_", "I", "N">> ELSE
    IF ctx_type \in {<<"V", "e", "h", "i", "c", "l", "e">>, <<"V", "e", "h", "i", "c", "l", "e", "M", "a", "k", "e">>, <<"V", "e", "h", "i", "c", "l", "e", "M", "o", "d", "e", "l">>, <<"V", "e", "h", "i", "c", "l", "e", "A", "g", "e">>, <<"V", "e", "h", "i", "c", "l", "e", "C", "l", "a", "s", "s">>, <<"V", "e", "h", "i", "c", "l", "e", "S", "i", "z", "e">>} THEN <<"H", "A", "S", "_", "V", "E", "H", "I", "C", "L", "E">> ELSE
    IF ctx_type \in {<<"A", "m", "o", "u", "n", "t">>, <<"C", "l", "a", "i", "m", "A", "m", "o", "u", "n", "t">>, <<"P", "r", "e", "m", "i", "u", "m", "A", "m", "o", "u", "n", "t">>, <<"L", "o", "a", "n", "A", "m", "o", "u", "n", "t">>, <<"D", "e", "d", "u", "c", "t", "i", "b", "l", "e">>, <<"F", "i", "n", "a", "n", "c", "i", "a", "l", "V", "a", "l", "u", "e">>} THEN <<"H", "A", "S", "_", "A", "M", "O", "U", "N", "T">> ELSE
    IF ctx_type \in {<<"P", "r", "o", "d", "u", "c", "t">>, <<"P", "o", "l", "i", "c", "y">>, <<"P", "o", "l", "i", "c", "y", "T", "y", "p", "e">>, <<"A", "c", "c", "o", "u", "n", "t">>, <<"A", "c", "c", "o", "u", "n", "t", "T", "y", "p", "e">>, <<"L", "o", "a", "n", "T", "y", "p", "e">>} THEN <<"H", "A", "S", "_", "P", "O", "L", "I", "C", "Y">> ELSE
    IF ctx_type \in {<<"I", "n", "c", "i", "d", "e", "n", "t">>, <<"I", "n", "c", "i", "d", "e", "n", "t", "T", "y", "p", "e">>, <<"I", "n", "c", "i", "d", "e", "n", "t", "S", "e", "v", "e", "r", "i", "t", "y">>} THEN <<"I", "N", "V", "O", "L", "V", "E", "D", "_", "I", "N">> ELSE
    IF ctx_type \in {<<"F", "r", "a", "u", "d", "F", "l", "a", "g">>, <<"R", "i", "s", "k", "L", "e", "v", "e", "l">>, <<"F", "a", "u", "l", "t">>} THEN <<"H", "A", "S", "_", "R", "I", "S", "K", "_", "F", "L", "A", "G">> ELSE
    IF ctx_type \in {<<"S", "t", "a", "t", "u", "s">>, <<"O", "u", "t", "c", "o", "m", "e">>} THEN <<"H", "A", "S", "_", "S", "T", "A", "T", "U", "S">> ELSE
    IF ctx_type \in {<<"C", "h", "a", "n", "n", "e", "l">>} THEN <<"V", "I", "A", "_", "C", "H", "A", "N", "N", "E", "L">> ELSE
    <<"L", "I", "N", "K", "E", "D", "_", "T", "O">>

\* E. the Case -> context edges of one row
RECURSIVE HierarchicalEdges(_, _, _, _, _)
HierarchicalEdges(st, ctxs, case_id, tv, filename) ==
    IF ctxs = << >> THEN st
    ELSE LET ctx == Head(ctxs)
             label == IF ctx.type = S_Activity THEN <<"P", "E", "R", "F", "O", "R", "M", "S">> ELSE rel_label(ctx.type)
             edge_unique_key == case_id \o <<"_">> \o ctx.id \o <<"_">> \o label \o <<"_">> \o tv
             r == RelWithId(edge_unique_key, case_id, ctx.id, label,
                            [k \in {"timestamp", "doc"} |->
                                IF k = "timestamp" THEN tv ELSE filename])
         IN  Bind(AddRel(st, edge_unique_key, r),
                  LAMBDA st1 : HierarchicalEdges(st1, Tail(ctxs), case_id, tv, filename))

\* if previous_activity_id is current_activity_id
SameActivity_never(previous_activity_id, current_activity_id) == FALSE

\* previous_activity_id == current_activity_id: no transition
SameActivity(previous_activity_id, current_activity_id) ==
    previous_activity_id = current_activity_id

\* the label and category of the transition into an activity
seq_label(ai_insights) ==
    IF ai_insights.isCause = "True" THEN [label |-> <<"C", "A", "U", "S", "E", "S">>, risk_cat |-> S_Cause]
    ELSE IF ai_insights.isEffect = "True" THEN [label |-> <<"R", "E", "S", "U", "L", "T", "S", "_", "I", "N">>, risk_cat |-> S_Effect]
    ELSE [label |-> S_NEXT, risk_cat |-> S_Process]

\* the sequence logic with the annotations assigned on every transition
SequenceStep_last_wins(st, rs, row, case_id, case_val, tv, filename) ==
    LET cur == rs.current_activity_id
        prev == st.tracker[case_id]
        prev_label == st.labels[case_id]
        sl == seq_label(_ai_ingestion_analysis(rs.current_activity_label))
        seq_key == prev \o <<"_">> \o cur \o <<"_">> \o sl.label \o <<"_">> \o NatStr(row.idx)
        r == RelWithId(seq_key, prev, cur, sl.label,
                       [k \in {"doc", "riskCategory", "case_ref", "timestamp"} |->
                           CASE k = "doc" -> filename
                             [] k = "riskCategory" -> sl.risk_cat
                             [] k = "case_ref" -> case_val
                             [] OTHER -> tv])
        st1 == AddRel(st, seq_key, r)
        st2 == [st1 EXCEPT !.ent[cur].properties = Put(@, "cause", prev_label)]
        st3 == [st2 EXCEPT !.ent[prev].properties = Put(@, "effect", rs.current_activity_label)]
        st4 == IF Has(st.tracker, case_id) /\ ~SameActivity(prev, cur) THEN st3 ELSE st
    IN  IF cur = None THEN st
        ELSE [st4 EXCEPT !.tracker = Put(@, case_id, cur),
                         !.labels = Put(@, case_id, rs.current_activity_label)]

\* F. the sequence logic of one row
SequenceStep(st, rs, row, case_id, case_val, tv, filename) ==
    LET cur == rs.current_activity_id
        prev == st.tracker[case_id]
        prev_label == st.labels[case_id]
        sl == seq_label(_ai_ingestion_analysis(rs.current_activity_label))
        seq_key == prev \o <<"_">> \o cur \o <<"_">> \o sl.label \o <<"_">> \o NatStr(row.idx)
        r == RelWithId(seq_key, prev, cur, sl.label,
                       [k \in {"doc", "riskCategory", "case_ref", "timestamp"} |->
                           CASE k = "doc" -> filename
                             [] k = "riskCategory" -> sl.risk_cat
                             [] k = "case_ref" -> case_val
                             [] OTHER -> tv])
        st1 == AddRel(st, seq_key, r)
        st2 == IF Has(st1.ent[cur].properties, "cause") THEN st1
               ELSE [st1 EXCEPT !.ent[cur].properties = Put(@, "cause", prev_label)]
        st3 == IF Has(st2.ent[prev].properties, "effect") THEN st2
               ELSE [st2 EXCEPT !.ent[prev].properties = Put(@, "effect", rs.current_activity_label)]
        st4 == IF Has(st.tracker, case_id) /\ ~SameActivity(prev, cur) THEN st3 ELSE st
    IN  IF cur = None THEN st
        ELSE [st4 EXCEPT !.tracker = Put(@, case_id, cur),
                         !.labels = Put(@, case_id, rs.current_activity_label)]

\* the body of the loop over df.iterrows()
ProcessRow(st, row, frame, filename) ==
    LET case_val == Strip(row.cells[frame.ci])
        case_id == _clean_id(S_Case, case_val)
        tv == time_val(row, frame)
    IN  Bind(ColumnsLoop([st |-> CaseStep(st, filename, case_val),
                          current_activity_id |-> None,
                          current_activity_label |-> << >>, row_context_nodes |-> << >>],
                         1, row, frame, filename),
             LAMBDA rs :
                Bind(HierarchicalEdges(rs.st, rs.row_context_nodes, case_id, tv, filename),
                     LAMBDA st2 : SequenceStep(st2, rs, row, case_id, case_val, tv, filename)))

RECURSIVE ProcessRows(_, _, _, _)
ProcessRows(st, rows, frame, filename) ==
    IF rows = << >> THEN st
    ELSE Bind(ProcessRow(st, Head(rows), frame, filename),
              LAMBDA next : ProcessRows(next, Tail(rows), frame, filename))

\* _process_csv_graph up to its first remote call: all_entities_list and
\* all_relationships, with the rows in the order they were processed
Batch(df, filename) ==
    LET frame0 == ReadFrame(df)
        rows == IF frame0.time_col = None THEN frame0.rows
                ELSE sort_values(frame0.rows, frame0.ci)
        frame == [columns |-> frame0.columns, case_col |-> frame0.case_col,
                  time_col |-> frame0.time_col, ci |-> frame0.ci, ti |-> frame0.ti,
                  banlist |-> {Strip(frame0.rows[i].cells[frame0.ci]) : i \in 1..Len(frame0.rows)}]
    IN  Bind(ProcessRows(EmptyBatch(filename), rows, frame, filename),
             LAMBDA st :
                [entities |-> [i \in 1..Len(st.ids) |-> st.ent[st.ids[i]]],
                 relationships |-> st.rels,
                 rows |-> rows,
                 frame |-> frame])

\* GraphRepository.create_relationship: the .property() steps of the query
rel_prop_str(properties) ==
    [k \in {x \in DOMAIN properties : properties[x] # None} |-> _escape(properties[k])]

\* GraphRepository.create_relationship: the query it sends
create_relationship_query(from_id, to_id, label, properties) ==
    [k |-> "upsertE", from |-> from_id, to |-> to_id, label |-> label,
     props |-> rel_prop_str(properties)]

\* GraphService.add_relationships, one relationship that has its label: the
\* create_relationship call it makes
add_relationships_call(r) ==
    LET props0 == IF Has(r, "properties") THEN r["properties"] ELSE EmptyDict
        risk == _determine_risk_category(r["label"])
        props1 == IF Truthy(risk) THEN Put(props0, "riskCategory", risk) ELSE props0
        props2 == IF Truthy(Get(r, "id")) THEN Put(props1, "edge_id", r["id"]) ELSE props1
    IN  [from |-> r["from"], to |-> r["to"], label |-> r["label"], properties |-> props2]

\* the remote calls of add_entities(entities): one create_entity each
EntityCalls(entities) ==
    [i \in 1..Len(entities) |->
        LET c == add_entities_call(entities[i])
        IN  create_entity_query(c.id, c.label, c.properties)]

\* the remote calls of add_relationships(relationships): one
\* create_relationship each
RelationshipCalls(relationships) ==
    [i \in 1..Len(relationships) |->
        LET c == add_relationships_call(relationships[i])
        IN  create_relationship_query(c.from, c.to, c.label, c.properties)]

\* the calls with add_relationships awaited before add_entities
IngestCalls_edges_first(batch) ==
    RelationshipCalls(batch.relationships) \o EntityCalls(batch.entities)

\* await self.add_entities(all_entities_list)
\* await self.add_relationships(all_relationships)
IngestCalls(batch) ==
    EntityCalls(batch.entities) \o RelationshipCalls(batch.relationships)

\* _process_csv_graph(csv_text, filename, domain), to its first remote call;
\* the frame also records which calls have returned, the store and the
\* operation before this one, and the error answers received so far
_process_csv_graph(df, filename) ==
    /\ Idle
    /\ \E batch \in {Batch(df, filename)} :
          \E calls \in {IngestCalls(batch)} :
             /\ op' = NewOp("_process_csv_graph", "call",
                            [id |-> None, filename |-> filename, df |-> df],
                            [batch |-> batch, calls |-> calls, i |-> 1, done |-> {},
                             before |-> V,
                             prev |-> [name |-> op.name, a |-> op.a, out |-> op.out],
                             faults |-> IF "faults" \in DOMAIN op.l THEN op.l.faults ELSE 0])
             /\ q' = Submit(calls[1])
    /\ UNCHANGED <<V, E>>

S_c1 == <<"c", "1">>
S_c2 == <<"c", "2">>
S_Login == <<"L", "o", "g", "i", "n">>
S_Review == <<"R", "e", "v", "i", "e", "w">>
S_nan == <<"n", "a", "n">>
S_Closed == <<"C", "l", "o", "s", "e", "d">>
S_Fraud_Closed == <<"F", "r", "a", "u", "d", " ", "C", "l", "o", "s", "e", "d">>

UntimedColumns == <<<<"C", "a", "s", "e", " ", "I", "D">>, <<"A", "c", "t", "i", "v", "i", "t", "y">>>>
TimedColumns == <<<<"C", "a", "s", "e", " ", "I", "D">>, <<"A", "c", "t", "i", "v", "i", "t", "y">>, <<"T", "i", "m", "e", "s", "t", "a", "m", "p">>>>

\* the most rows of a dataframe drawn for the sequence logic
MaxRows == 3

\* the sequences over S of 1 to n elements
SeqsUpTo(S, n) == UNION {[1..k -> S] : k \in 1..n}

\* the Case and time cells of the rows of the dataframes with a time column
TimedCells == {<<S_c1, <<"2", "0", "2", "4", "-", "0", "1", "-", "0", "1">>>>, <<S_c1, <<"2", "0", "2", "4", "-", "0", "1", "-", "0", "2">>>>, <<S_c2, <<"2", "0", "2", "4", "-", "0", "1", "-", "0", "1">>>>}

\* dataframes of two Cases whose rows interleave, without and with a time column
SequenceFrames ==
    {[columns |-> UntimedColumns, rows |-> rows] :
        rows \in SeqsUpTo({<<c, a>> : c \in {S_c1, S_c2}, a \in {S_Login, S_Review, S_nan}},
                          MaxRows)}
    \cup
    {[columns |-> TimedColumns, rows |-> rows] :
        rows \in SeqsUpTo({<<ct[1], a, ct[2]>> : ct \in TimedCells, a \in {S_Login, S_Review}},
                          MaxRows)}

\* dataframes of one Case: a plain step, then a step of each kind of label
KeywordFrames ==
    {[columns |-> UntimedColumns, rows |-> <<<<S_c1, S_Login>>, <<S_c1, a>>, <<S_c1, b>>>>] :
        a \in {S_Review, S_Fraud, S_Closed, S_Fraud_Closed},
        b \in {S_Login, S_Closed}}

\* dataframes of four rows: two steps of one Case, then two steps of it or
\* of another Case, over three activities
AnnotationFrames ==
    {[columns |-> UntimedColumns, rows |-> <<<<S_c1, a>>, <<S_c1, b>>, <<c, d>>, <<c, e>>>>] :
        a \in {S_Login, S_Review}, b \in {S_Login, S_Review, S_Closed}, c \in {S_c1, S_c2},
        d \in {S_Login, S_Review, S_Closed}, e \in {S_Login, S_Review, S_Closed}}

Dataframes == SequenceFrames \cup KeywordFrames \cup AnnotationFrames

InitBatch ==
    /\ V = {}
    /\ E = {}
    /\ op = IdleOp
    /\ q = IdleFrame

NextBatch ==
    \E df \in Dataframes : _process_csv_graph(df, S_car_log_csv)

SpecBatch == InitBatch /\ [][NextBatch]_vars

\* the elements of a set of numbers in increasing order
Sorted(I) ==
    [k \in 1..Cardinality(I) |-> CHOOSE i \in I : Cardinality({j \in I : j <= i}) = k]

\* the columns of a row that hold an activity
ActivityColumns(row, frame) ==
    {i \in 1..Len(frame.columns) :
        LET val == Strip(CellStr(row, i, frame))
        IN  /\ frame.columns[i] # frame.case_col
            /\ val # << >>
            /\ Lower(val) # S_nan
            /\ val \notin frame.banlist
            /\ _detect_type(frame.columns[i], val) = S_Activity}

\* the activity id of a row that has one
RowActivityId(row, frame) ==
    _clean_id(S_Activity, Strip(CellStr(row, Max(ActivityColumns(row, frame)), frame)))

RowCase(row, frame) == Strip(row.cells[frame.ci])

CaseVals(batch) == {RowCase(batch.rows[i], batch.frame) : i \in 1..Len(batch.rows)}

\* a_1..a_n: the activity ids of the rows of a Case, in processing order
ActivityIds(batch, case_val) ==
    LET at == Sorted({i \in 1..Len(batch.rows) :
                        /\ RowCase(batch.rows[i], batch.frame) = case_val
                        /\ ActivityColumns(batch.rows[i], batch.frame) # {}})
    IN  [k \in 1..Len(at) |-> RowActivityId(batch.rows[at[k]], batch.frame)]

\* the pairs (a_i, a_(i+1)) of different ids, in order
ExpectedTransitions(batch, case_val) ==
    LET a == ActivityIds(batch, case_val)
        at == Sorted({i \in 1..(Len(a) - 1) : a[i] # a[i + 1]})
    IN  [k \in 1..Len(at) |-> <<a[at[k]], a[at[k] + 1]>>]

\* a relationship the sequence logic emitted
IsTransition(r) == Has(r["properties"], "riskCategory")

\* the transition edges emitted for a Case, in order, as (from, to)
EmittedTransitions(batch, case_val) ==
    LET at == Sorted({i \in 1..Len(batch.relationships) :
                        /\ IsTransition(batch.relationships[i])
                        /\ batch.relationships[i]["properties"]["case_ref"] = case_val})
    IN  [k \in 1..Len(at) |-> <<batch.relationships[at[k]]["from"], batch.relationships[at[k]]["to"]>>]

Transitions(batch) ==
    {batch.relationships[i] : i \in {j \in 1..Len(batch.relationships) :
                                       IsTransition(batch.relationships[j])}}

\* the label of the activity a transition leads into
TargetLabel(batch, r) ==
    (CHOOSE e \in {batch.entities[i] : i \in 1..Len(batch.entities)} : e.id = r["to"]).label

\* C11 (sequence correctness): the transition edges _process_csv_graph emits
\* for a Case are, in order, exactly the adjacent pairs of different activity
\* ids of that Case's rows in processing order; every transition edge belongs
\* to a Case of the source; and into an activity without risk or terminal
\* keyword the edge is NEXT with riskCategory Process.
C11_SequenceCorrectness ==
    op.name = "_process_csv_graph"
        => /\ \A case_val \in CaseVals(op.l.batch) :
                 EmittedTransitions(op.l.batch, case_val)
                     = ExpectedTransitions(op.l.batch, case_val)
           /\ \A r \in Transitions(op.l.batch) :
                 /\ r["properties"]["case_ref"] \in CaseVals(op.l.batch)
                 /\ ~InText(Lower(TargetLabel(op.l.batch, r)),
                            high_risk_keywords \cup terminal_keywords)
                       => /\ r["label"] = S_NEXT
                          /\ r["properties"]["riskCategory"] = S_Process

\* rows of Case c1, Case c2, Case c1 with three different steps of which the
\* first and the last make the one transition of c1
C11_Witness ==
    /\ op.name = "_process_csv_graph"
    /\ Len(op.l.batch.rows) = 3
    /\ op.l.batch.frame.time_col = None
    /\ RowCase(op.l.batch.rows[1], op.l.batch.frame) = S_c1
    /\ RowCase(op.l.batch.rows[2], op.l.batch.frame) = S_c2
    /\ RowCase(op.l.batch.rows[3], op.l.batch.frame) = S_c1
    /\ ActivityIds(op.l.batch, S_c2) = <<_clean_id(S_Activity, S_Review)>>
    /\ EmittedTransitions(op.l.batch, S_c1)
           = <<<<_clean_id(S_Activity, S_Login), _clean_id(S_Activity, S_Review)>>>>
    /\ EmittedTransitions(op.l.batch, S_c2) = << >>

\* every transition edge carries the label and category of the first rule its
\* target's label matches, the terminal rule giving effect_label
TransitionsClassified(batch, effect_label) ==
    \A r \in Transitions(batch) :
        LET text == Lower(TargetLabel(batch, r))
        IN  IF InText(text, high_risk_keywords)
            THEN r["label"] = <<"C", "A", "U", "S", "E", "S">> /\ r["properties"]["riskCategory"] = S_Cause
            ELSE IF InText(text, terminal_keywords)
            THEN r["label"] = effect_label /\ r["properties"]["riskCategory"] = S_Effect
            ELSE r["label"] = S_NEXT /\ r["properties"]["riskCategory"] = S_Process

----------------------------------------------------------------------------
(* CSV ingestion against the store: the remote calls of add_entities and   *)
(* add_relationships, one after the other.                                  *)

\* add_relationships pauses after every THROTTLE_EVERY-th relationship
THROTTLE_EVERY == 10

\* the enumerate() index of the relationship whose call is calls[i]
RelIndex(calls, i) == Cardinality({j \in 1..i : calls[j].k = "upsertE"}) - 1

\* the call after calls[i], or the return of _process_csv_graph
ingest_continue ==
    IF op.l.i = Len(op.l.calls)
    THEN /\ op' = [op EXCEPT !.pc = "done", !.out = "ok", !.l.done = @ \cup {op.l.i}]
         /\ UNCHANGED q
    ELSE /\ op' = [op EXCEPT !.pc = "call", !.l.i = @ + 1, !.l.done = @ \cup {op.l.i}]
         /\ q' = Submit(op.l.calls[op.l.i + 1])

\* a create_entity or create_relationship call of the batch returned
ingest_returned ==
    /\ op.name = "_process_csv_graph"
    /\ op.pc = "call"
    /\ q.st = "ret"
    /\ IF op.l.calls[op.l.i].k = "upsertE" /\ RelIndex(op.l.calls, op.l.i) % THROTTLE_EVERY = 0
       THEN /\ op' = [op EXCEPT !.pc = "pause", !.l.done = @ \cup {op.l.i}]
            /\ UNCHANGED q
       ELSE ingest_continue
    /\ UNCHANGED <<V, E>>

\* add_relationships: asyncio.sleep(0.05) is over
ingest_paused ==
    /\ op.name = "_process_csv_graph"
    /\ op.pc = "pause"
    /\ ingest_continue
    /\ UNCHANGED <<V, E>>

\* the most error answers the store gives the ingestions of one behaviour
MaxFaults == 1

\* one pass of the while loop of a call of the batch
ingest_attempt(resp) ==
    /\ op.name = "_process_csv_graph"
    /\ resp.ok \/ op.l.faults < MaxFaults
    /\ Answer(resp)
    /\ op' = [op EXCEPT !.l.faults = IF resp.ok THEN @ ELSE @ + 1]

\* two Cases that take the same step, and one Case that is closed
ParallelFrame ==
    [columns |-> UntimedColumns,
     rows |-> <<<<S_c1, S_Login>>, <<S_c1, S_Review>>, <<S_c2, S_Login>>, <<S_c2, S_Review>>>>]
ClosedFrame ==
    [columns |-> UntimedColumns, rows |-> <<<<S_c1, S_Login>>, <<S_c1, S_Closed>>>>]

IngestFrames == {ParallelFrame, ClosedFrame}

InitIngest ==
    /\ V = {}
    /\ E = {}
    /\ op = IdleOp
    /\ q = IdleFrame

\* a source is ingested, and then a source is ingested once more
NextIngest ==
    \/ \E df \in IngestFrames :
          /\ op.name = "_process_csv_graph" => op.l.prev.name # "_process_csv_graph"
          /\ _process_csv_graph(df, S_car_log_csv)
    \/ ingest_returned
    \/ ingest_paused
    \/ \E resp \in Responses : ingest_attempt(resp)
    \/ Wake
    \/ Propagate

SpecIngest == InitIngest /\ [][NextIngest]_vars

\* the ingestion that has just returned was the first into an empty store and
\* the store answered every call of it
FirstIngestionDone ==
    /\ op.name = "_process_csv_graph"
    /\ op.pc = "done"
    /\ op.out = "ok"
    /\ op.l.prev.name # "_process_csv_graph"
    /\ op.l.faults = 0

\* the same source has been ingested twice and both ingestions returned
SecondIngestionDone ==
    /\ op.name = "_process_csv_graph"
    /\ op.pc = "done"
    /\ op.out = "ok"
    /\ op.l.prev.name = "_process_csv_graph"
    /\ op.l.prev.out = "ok"
    /\ op.l.prev.a = op.a

\* the ids of the nodes an ingestion of the source writes
NodeIds(df, filename) ==
    LET calls == EntityCalls(Batch(df, filename).entities)
    IN  {calls[i].id : i \in 1..Len(calls)}

\* C13: when the same CSV source has been ingested twice and both ingestions
\* returned, the two ingestions wrote the same node ids, and the store holds
\* as many nodes after the second ingestion as it held after the first
C13_IdempotentIngestion ==
    SecondIngestionDone
        => /\ NodeIds(op.l.prev.a.df, op.l.prev.a.filename) = NodeIds(op.a.df, op.a.filename)
           /\ Cardinality(V) = Cardinality(op.l.before)

\* the relationship calls of the batch
RelCalls(calls) == {i \in 1..Len(calls) : calls[i].k = "upsertE"}

\* the edges of the store that an upsertE call names
EdgesOf(Es, c) == {e \in Es : e.from = c.from /\ e.to = c.to /\ e.label = c.label}

\* C14: after an ingestion into an empty store that the store answered
\* without error, the store holds, between two nodes it has, one edge for
\* each relationship of the batch with these endpoints and this label
C14_ParallelEdgesPersisted ==
    FirstIngestionDone
        => \A i \in RelCalls(op.l.calls) :
              LET c == op.l.calls[i]
                  same == {j \in RelCalls(op.l.calls) :
                              /\ op.l.calls[j].from = c.from
                              /\ op.l.calls[j].to = c.to
                              /\ op.l.calls[j].label = c.label}
              IN  (VById(V, c.from) # {} /\ VById(V, c.to) # {})
                     => Cardinality(EdgesOf(E, c)) = Cardinality(same)

\* C16: after an ingestion into an empty store that the store answered
\* without error, the from and to id of every relationship of the batch is
\* the id of a node add_entities stored, and the edge is in the store
C16_EdgeEndpointsExist ==
    FirstIngestionDone
        => \A i \in RelCalls(op.l.calls) :
              LET c == op.l.calls[i]
              IN  /\ VById(V, c.from) # {}
                  /\ VById(V, c.to) # {}
                  /\ EdgesOf(E, c) # {}

\* C17: while a create_relationship call of an ingestion batch is in flight,
\* the create_entity call of each of its two endpoint nodes has returned
C17_NodesBeforeEdges ==
    (op.name = "_process_csv_graph" /\ op.pc = "call" /\ q.query.k = "upsertE")
        => \A x \in {q.query.from, q.query.to} :
              \E j \in 1..Len(op.l.batch.entities) :
                 /\ op.l.batch.entities[j]["id"] = x
                 /\ \E m \in op.l.done :
                       op.l.calls[m] = EntityCalls(op.l.batch.entities)[j]

\* a transition edge between two Activity nodes is being created after the
\* five node calls of the batch have returned
C17_Witness ==
    /\ op.name = "_process_csv_graph"
    /\ op.pc = "call"
    /\ q.st = "try"
    /\ q.query.k = "upsertE"
    /\ q.query.label = S_NEXT
    /\ q.query.from = _clean_id(S_Activity, S_Login)
    /\ q.query.to = _clean_id(S_Activity, S_Review)
    /\ Cardinality({m \in op.l.done : op.l.calls[m].k = "upsertV"}) = 5

----------------------------------------------------------------------------
(* Edge writes: GraphService.add_relationship, add_relationships,          *)
(* update_relationship, upgrade_relationship, and add_entities as a call   *)
(* of its own.                                                              *)

S_LINKED_TO == <<"L", "I", "N", "K", "E", "D", "_", "T", "O">>
S_e1 == <<"e", "1">>

\* GraphRepository.update_relationship: the query it sends
update_relationship_query(rel_id, properties) ==
    [k |-> "updateE", id |-> rel_id,
     props |-> [x \in DOMAIN properties |-> _escape(properties[x])]]

\* GraphService.update_relationship(rel_id, properties)
update_relationship(rel_id, properties) ==
    /\ Idle
    /\ op' = NewOp("update_relationship", "query",
                   [id |-> rel_id, properties |-> properties], NoArgs)
    /\ q' = Submit(update_relationship_query(rel_id, properties))
    /\ UNCHANGED <<V, E>>

\* add_relationship: properties with the label's risk category
with_risk(label, properties) ==
    LET risk_cat == _determine_risk_category(label)
    IN  IF Truthy(risk_cat) THEN Put(properties, "riskCategory", risk_cat) ELSE properties

\* GraphService.add_relationship(from_id, to_id, rel_type, properties), to
\* its first remote call
add_relationship(from_id, to_id, rel_type, properties) ==
    /\ Idle
    /\ LET props == with_risk(rel_type, properties)
           a == [id |-> None, from |-> from_id, to |-> to_id, label |-> rel_type,
                 properties |-> properties]
       IN  IF ~Has(props, "doc") /\ ~Has(props, "documentId")
           THEN /\ op' = NewOp("add_relationship", "lookup", a, [props |-> props])
                /\ q' = SubmitRunQuery([k |-> "projectV", id |-> from_id])
           ELSE /\ op' = NewOp("add_relationship", "query", a, [props |-> props])
                /\ q' = Submit(create_relationship_query(from_id, to_id, rel_type, props))
    /\ UNCHANGED <<V, E>>

\* add_relationship: properties with what the source node's lookup gave
inherit(properties, node_data) ==
    LET p1 == IF Truthy(node_data.doc)
              THEN Put(Put(properties, "documentId", node_data.doc), "doc", node_data.doc)
              ELSE properties
    IN  IF Truthy(node_data.pk)
        THEN Put(Put(p1, pk_key, node_data.pk), "domain", node_data.pk)
        ELSE p1

\* add_relationship: _run_query returned the source node's context
add_relationship_looked_up ==
    /\ op.name = "add_relationship"
    /\ op.pc = "lookup"
    /\ q.st = "ret"
    /\ LET props == IF DOMAIN q.result # {} THEN inherit(op.l.props, q.result)
                    ELSE op.l.props
       IN  /\ op' = [op EXCEPT !.pc = "query", !.l.props = props]
           /\ q' = Submit(create_relationship_query(op.a.from, op.a.to, op.a.label, props))
    /\ UNCHANGED <<V, E>>

\* GraphService.upgrade_relationship(rel_id, new_type, new_props), to its
\* first remote call
upgrade_relationship(rel_id, new_type, new_props) ==
    /\ Idle
    /\ op' = NewOp("upgrade_relationship", "lookup",
                   [id |-> rel_id, label |-> new_type, properties |-> new_props],
                   [ret |-> "none", sid |-> None, tid |-> None])
    /\ q' = SubmitRunQuery([k |-> "projectE", id |-> rel_id])
    /\ UNCHANGED <<V, E>>

\* upgrade_relationship: _run_query returned the edge, or nothing
upgrade_relationship_looked_up ==
    /\ op.name = "upgrade_relationship"
    /\ op.pc = "lookup"
    /\ q.st = "ret"
    /\ IF DOMAIN q.result = {}
       THEN /\ op' = [op EXCEPT !.pc = "done", !.out = "ok", !.l.ret = "error"]
            /\ UNCHANGED q
       ELSE /\ op' = [op EXCEPT !.pc = "create", !.l.sid = q.result.sid,
                                !.l.tid = q.result.tid]
            /\ q' = Submit(create_relationship_query(q.result.sid, q.result.tid, op.a.label,
                                                     with_risk(op.a.label, op.a.properties)))
    /\ UNCHANGED <<V, E>>

\* upgrade_relationship: create_relationship returned; delete_relationship
upgrade_relationship_created ==
    /\ op.name = "upgrade_relationship"
    /\ op.pc = "create"
    /\ q.st = "ret"
    /\ op' = [op EXCEPT !.pc = "query", !.l.ret = "success"]
    /\ q' = Submit([k |-> "dropE", id |-> op.a.id])
    /\ UNCHANGED <<V, E>>

\* add_entities from entry i on: the loop is over, or the next create_entity
add_entities_from(entities, i, o) ==
    IF i > Len(entities)
    THEN /\ op' = [o EXCEPT !.pc = "done", !.out = "ok"]
         /\ UNCHANGED q
    ELSE /\ op' = [o EXCEPT !.pc = "call", !.l.i = i, !.l.issued = @ + 1]
         /\ q' = Submit(EntityCalls(entities)[i])

\* GraphService.add_entities(entities), to its first remote call
add_entities(entities) ==
    /\ Idle
    /\ add_entities_from(entities, 1,
                         NewOp("add_entities", "call",
                               [id |-> None, entities |-> entities],
                               [i |-> 0, issued |-> 0]))
    /\ UNCHANGED <<V, E>>

\* add_entities: a create_entity call returned
add_entities_returned ==
    /\ op.name = "add_entities"
    /\ op.pc = "call"
    /\ q.st = "ret"
    /\ add_entities_from(op.a.entities, op.l.i + 1, op)
    /\ UNCHANGED <<V, E>>

\* r["label"], r["from"], r["to"] raise no KeyError
Complete(r) == Has(r, "label") /\ Has(r, "from") /\ Has(r, "to")

\* add_relationships from entry i on: the loop is over, the entry raises
\* KeyError, or the next create_relationship
add_relationships_from(relationships, i, o) ==
    IF i > Len(relationships)
    THEN /\ op' = [o EXCEPT !.pc = "done", !.out = "ok"]
         /\ UNCHANGED q
    ELSE IF ~Complete(relationships[i])
    THEN /\ op' = [o EXCEPT !.pc = "done", !.out = "raised"]
         /\ UNCHANGED q
    ELSE /\ op' = [o EXCEPT !.pc = "call", !.l.i = i, !.l.issued = @ + 1]
         /\ q' = Submit(RelationshipCalls(<<relationships[i]>>)[1])

\* GraphService.add_relationships(relationships), to its first remote call
add_relationships(relationships) ==
    /\ Idle
    /\ add_relationships_from(relationships, 1,
                              NewOp("add_relationships", "call",
                                    [id |-> None, relationships |-> relationships],
                                    [i |-> 0, issued |-> 0]))
    /\ UNCHANGED <<V, E>>

\* add_relationships: a create_relationship call returned
add_relationships_returned ==
    /\ op.name = "add_relationships"
    /\ op.pc = "call"
    /\ q.st = "ret"
    /\ IF (op.l.i - 1) % THROTTLE_EVERY = 0
       THEN /\ op' = [op EXCEPT !.pc = "pause"]
            /\ UNCHANGED q
       ELSE add_relationships_from(op.a.relationships, op.l.i + 1, op)
    /\ UNCHANGED <<V, E>>

\* add_relationships: asyncio.sleep(0.05) is over
add_relationships_paused ==
    /\ op.name = "add_relationships"
    /\ op.pc = "pause"
    /\ add_relationships_from(op.a.relationships, op.l.i + 1, op)
    /\ UNCHANGED <<V, E>>

\* the operation raised at an awaited write that is not its last statement
PropagateWrite ==
    /\ op.name \in {"add_entities", "add_relationships", "upgrade_relationship"}
    /\ op.pc \in {"call", "create"}
    /\ q.st = "raise"
    /\ op' = [op EXCEPT !.pc = "done", !.out = "raised"]
    /\ UNCHANGED <<V, E, q>>

SeedEdgeProps == [doc |-> S_car_log_csv, riskCategory |-> S_Process]

\* the stores the edge writes start from: two nodes of a CSV document, and
\* possibly the NEXT edge an ingestion has written between them
EdgeStores ==
    {[V |-> {Vertex(S_a, S_Case, S_car, S_car_log_csv, S_v1),
             Vertex(S_b, S_Activity, S_car, S_car_log_csv, S_v2)},
      E |-> Es] :
        Es \in {{}, {[id |-> S_e1, from |-> S_a, to |-> S_b, label |-> S_NEXT,
                      props |-> SeedEdgeProps]}}}

\* properties a caller passes with an edge write
EdgeProps == {[riskCategory |-> S_Cause], [doc |-> S_car_log_csv]}

EdgeLabels == {S_NEXT, S_LINKED_TO}

\* entries of an add_relationships batch: complete ones, and one without label
RelEntries ==
    {[from |-> S_a, to |-> S_b, label |-> S_LINKED_TO, properties |-> EmptyDict],
     [from |-> S_a, to |-> S_b, properties |-> EmptyDict]}

\* entries of an add_entities batch: one with id and type, one without
NodeEntries ==
    {[id |-> S_v1, type |-> S_Concept, label |-> S_Fraud, properties |-> EmptyDict],
     [label |-> S_Fraud, properties |-> EmptyDict]}

\* the most entries of a batch
MaxBatch == 2

InitEdge ==
    /\ \E s \in EdgeStores : V = s.V /\ E = s.E
    /\ op = IdleOp
    /\ q = IdleFrame

\* one write of new elements, and then one change of an edge
NextEdge ==
    \/ /\ op.name = "none"
       /\ \/ \E rel_type \in EdgeLabels : \E properties \in EdgeProps :
                add_relationship(S_a, S_b, rel_type, properties)
          \/ \E relationships \in SeqsUpTo(RelEntries, MaxBatch) :
                add_relationships(relationships)
          \/ \E entities \in SeqsUpTo(NodeEntries, MaxBatch) : add_entities(entities)
    \/ /\ op.name \in {"none", "add_relationship", "add_relationships"}
       /\ \/ \E rel_id \in {S_e1, <<"g", "1">>} :
                update_relationship(rel_id, [riskCategory |-> S_Cause])
          \/ \E new_type \in EdgeLabels :
                upgrade_relationship(S_e1, new_type, [riskCategory |-> S_Cause])
    \/ add_relationship_looked_up
    \/ add_relationships_returned
    \/ add_relationships_paused
    \/ upgrade_relationship_looked_up
    \/ upgrade_relationship_created
    \/ add_entities_returned
    \/ \E resp \in Responses : Attempt(resp)
    \/ \E resp \in Responses : RunQuery(resp)
    \/ Wake
    \/ ReturnFromQuery
    \/ PropagateWrite

SpecEdge == InitEdge /\ [][NextEdge]_vars

\* C15: every stored edge's riskCategory is what the static table gives for
\* the edge's label
C15_RiskCategoryDerived ==
    \A e \in E : Get(e.props, "riskCategory") = _determine_risk_category(e.label)

\* C18: a batch with an entry that lacks a required field is rejected before
\* any remote call: add_relationships with an entry without from, to or
\* label, and add_entities with an entry without id or type, issue no call
C18_FailFast ==
    /\ (op.name = "add_relationships"
        /\ \E i \in 1..Len(op.a.relationships) : ~Complete(op.a.relationships[i]))
           => op.l.issued = 0
    /\ (op.name = "add_entities"
        /\ \E i \in 1..Len(op.a.entities) :
              ~(Has(op.a.entities[i], "id") /\ Has(op.a.entities[i], "type")))
           => op.l.issued = 0

----------------------------------------------------------------------------
(* Error reporting of the repository operations.                           *)

\* C19: an error answer that is neither a rate limit nor a not-found ends
\* _execute_query at that attempt with this error raised, and the repository
\* operation that issued the query ends with the error raised, not with a
\* normal return
C19_PermanentErrorsPropagate ==
    /\ \A i \in 1..Len(q.hist) :
          (q.via = "_execute_query" /\ q.hist[i] = "error")
              => i = Len(q.hist) /\ q.st = "raise" /\ Signal(q.err) = "error"
    /\ (/\ op.name \in {"create_entity", "repo_update_entity", "update_entity",
                        "delete_entity", "delete_data_by_filename", "fetch_combined_graph"}
        /\ op.pc = "done"
        /\ q.via = "_execute_query"
        /\ q.st = "raise"
        /\ Signal(q.err) = "error")
           => op.out = "raised"

\* C20: when the update query of GraphService.update_entity matched no node
\* under the resolved partition key, the call does not end as a success
C20_MissingNodeReported ==
    (/\ op.name = "update_entity"
     /\ op.pc = "done"
     /\ q.query.k = "updateV"
     /\ Last(q.hist) = "result"
     /\ q.result = << >>)
        => op.out # "ok"

----------------------------------------------------------------------------
(* Reads.                                                                   *)

\* what a read that returned normally gave its caller is empty
EmptyReturn ==
    CASE op.name = "get_stats" -> op.l.ret = [nodes |-> 0, edges |-> 0]
      [] op.name \in {"get_entities", "search_nodes"} -> op.l.ret = << >>
      [] op.name \in {"fetch_combined_graph", "get_neighbors"} ->
            op.l.ret.nodes = << >> /\ op.l.ret.edges = << >>

----------------------------------------------------------------------------
(* Two ingestion flows that write the same node: one runs add_entities     *)
(* here, the other's create_entity calls reach the store in between.       *)

\* the Activity node 'Login' as an ingestion of each of two CSV sources writes it
SharedNodes ==
    {csv_context_node(filename, S_Activity, S_Login) : filename \in {S_car_log_csv, S_bus_log_csv}}

InitConc ==
    /\ V = {}
    /\ E = {}
    /\ op = IdleOp
    /\ q = IdleFrame

NextConc ==
    \/ \E e \in SharedNodes : add_entities(<<e>>)
    \/ add_entities_returned
    \/ \E e \in SharedNodes : concurrent_create_entity(e)
    \/ \E resp \in Responses : Attempt(resp)
    \/ Wake
    \/ PropagateWrite

SpecConc == InitConc /\ [][NextConc]_vars

\* the partition keys the two flows' create_entity queries carry
SharedKeys == {create_entity_query(add_entities_call(e).id, add_entities_call(e).label,
                                   add_entities_call(e).properties).pk : e \in SharedNodes}

\* C22: with the create_entity calls of two flows for one node id reaching
\* the store in any order, the store never holds two nodes with that id, and
\* the node keeps the partition key of the create that executed first
C22_ConcurrentUpsert ==
    /\ []OneNodePerId(V)
    /\ [][/\ \A v \in V : \E w \in V' : w.id = v.id /\ w.props["pk"] = v.props["pk"]
          /\ \A w \in V' :
                (\A v \in V : v.id # w.id)
                    => IF q' # q THEN w.props["pk"] = q.query.pk
                       ELSE w.props["pk"] \in SharedKeys]_vars

\* this flow's add_entities for the node of 'car_log.csv' has returned after
\* its create_entity executed, and the node has the partition key of the
\* other flow, whose create_entity executed first
C22_Witness ==
    /\ op.name = "add_entities"
    /\ op.pc = "done"
    /\ op.out = "ok"
    /\ Last(q.hist) = "result"
    /\ op.a.entities[1]["properties"]["documentId"] = S_car_log_csv
    /\ \E v \in V :
          /\ v.id = _clean_id(S_Activity, S_Login)
          /\ v.props["pk"] = csv_domain(S_bus_log_csv)
          /\ v.props["pk"] # q.query.pk
    /\ Cardinality(V) = 1

----------------------------------------------------------------------------
(* Query texts.                                                             *)

\* C23: in every query sent to the store, every caller-supplied value that
\* stands between quotes has its single quotes escaped
C23_QuotesEscaped ==
    q.query.k # "none" => \A text \in Literals(q.query) : QuoteSafe(text)

----------------------------------------------------------------------------
(* Client connections. Every GraphRepository object has a client field;     *)
(* the process has the module object graph_repository, and GraphAnalytics   *)
(* holds a repository object of its own. In this specification op.l holds   *)
(* the client fields and the number of Client objects made so far.          *)

MaxClients == 3

Repos == {"graph_repository", "analytics_repo"}

\* GraphRepository.__init__ of both objects: self.client = None
NoClients == [graph_repository |-> None, analytics_repo |-> None, made |-> 0]

\* the Client objects that are open: made and not closed
OpenClients(l) == {l[r] : r \in {x \in Repos : Truthy(l[x])}}

\* GraphRepository.connect on an object without a client: Client(...) is made
connected(l, self) == [l EXCEPT ![self] = <<l.made + 1>>, !.made = @ + 1]

\* GraphRepository.connect()
connect(self) ==
    /\ Idle
    /\ Truthy(op.l[self]) \/ op.l.made < MaxClients
    /\ \/ op' = [op EXCEPT !.name = "connect", !.a = [id |-> None, self |-> self],
                           !.l = IF Truthy(op.l[self]) THEN @ ELSE connected(@, self),
                           !.out = "ok"]
       \/ /\ ~Truthy(op.l[self])
          /\ op' = [op EXCEPT !.name = "connect", !.a = [id |-> None, self |-> self],
                              !.out = "raised"]
    /\ UNCHANGED <<V, E, q>>

\* GraphRepository.close()
close(self) ==
    /\ Idle
    /\ op' = [op EXCEPT !.name = "close", !.a = [id |-> None, self |-> self],
                        !.l = [@ EXCEPT ![self] = None], !.out = "ok"]
    /\ UNCHANGED <<V, E, q>>

\* the query of GraphRepository.get_relationships
get_relationships_query == [k |-> "readE", doc |-> None, limited |-> FALSE, limit |-> 0]

\* an operation of the repository object self enters _execute_query: without
\* a client it connects first, then the query is submitted on self.client
execute_on(name, self, query) ==
    /\ Idle
    /\ Truthy(op.l[self]) \/ op.l.made < MaxClients
    /\ \/ /\ op' = [op EXCEPT !.name = name, !.pc = "query",
                              !.a = [id |-> None, self |-> self],
                              !.l = IF Truthy(op.l[self]) THEN @ ELSE connected(@, self),
                              !.out = "none"]
          /\ q' = Submit(query)
       \/ /\ ~Truthy(op.l[self])
          /\ op' = [op EXCEPT !.name = name, !.a = [id |-> None, self |-> self],
                              !.out = "raised"]
          /\ q' = q
    /\ UNCHANGED <<V, E>>

\* GraphRepository.get_relationships() on the module object
get_relationships == execute_on("get_relationships", "graph_repository", get_relationships_query)

\* GraphAnalytics.detect_communities(), to its await of
\* self.repo.get_relationships(); without relationships it returns there
detect_communities == execute_on("detect_communities", "analytics_repo", get_relationships_query)

InitClient ==
    /\ V \in {{}, SeedV}
    /\ E = {}
    /\ op = [IdleOp EXCEPT !.name = "import", !.a = [id |-> None, self |-> "graph_repository"],
                           !.l = NoClients]
    /\ q = IdleFrame

NextClient ==
    \/ connect("graph_repository")
    \/ close("graph_repository")
    \/ get_relationships
    \/ detect_communities
    \/ \E resp \in Responses : Attempt(resp)
    \/ Wake
    \/ ReturnFromQuery

SpecClient == InitClient /\ [][NextClient]_vars

\* C24: at most one client is open at any time; a connect with a client open
\* makes no client, every query is submitted on the client of the module
\* object graph_repository, and after close() the client field is None
C24_SingleSharedClient ==
    /\ Cardinality(OpenClients(op.l)) <= 1
    /\ op.pc = "query" => op.a.self = "graph_repository"
    /\ op.name = "close" => ~Truthy(op.l[op.a.self])

----------------------------------------------------------------------------
(* The node map of a batch, row by row.                                     *)

\* all_entities_map and the rest of the loop's state after the first n rows
\* of the batch
AfterRows(batch, filename, n) ==
    ProcessRows(EmptyBatch(filename), SubSeq(batch.rows, 1, n), batch.frame, filename)

\* a node entry without its annotations
Unannotated(e) == [e EXCEPT !.properties = Del(Del(@, "cause"), "effect")]

\* from map state a to map state b every entry stays, with its annotations
Kept(a, b) ==
    /\ SubSeq(b.ids, 1, Len(a.ids)) = a.ids
    /\ \A id \in DOMAIN a.ent :
          /\ id \in DOMAIN b.ent
          /\ Unannotated(b.ent[id]) = Unannotated(a.ent[id])
          /\ \A k \in {"cause", "effect"} :
                Has(a.ent[id].properties, k)
                    => /\ Has(b.ent[id].properties, k)
                       /\ b.ent[id].properties[k] = a.ent[id].properties[k]

\* the transitions of the batch into the node id (k = "cause") or out of it
\* (k = "effect"): the labels of the other activity, per transition edge
Annotators(batch, id, k) ==
    {<<i, IF k = "cause" THEN batch.relationships[i]["from"] ELSE batch.relationships[i]["to"]>> :
        i \in {j \in 1..Len(batch.relationships) :
                 /\ IsTransition(batch.relationships[j])
                 /\ batch.relationships[j][IF k = "cause" THEN "to" ELSE "from"] = id}}

\* C25: while _process_csv_graph processes the rows of a batch, a node entry
\* in the map is never replaced by a later occurrence of its id, and a
\* 'cause' or 'effect' annotation once recorded is never changed or removed
\* by a later row
C25_MetadataKept ==
    op.name = "_process_csv_graph"
        => \A n \in 0..(Len(op.l.batch.rows) - 1) :
              Kept(AfterRows(op.l.batch, op.a.filename, n),
                   AfterRows(op.l.batch, op.a.filename, n + 1))

\* a batch of two Cases in which an Activity node is entered from two
\* different activities: the later row found its 'cause' recorded, and the
\* node also has its 'effect'
C25_Witness ==
    /\ op.name = "_process_csv_graph"
    /\ \E i \in 1..Len(op.l.batch.entities) :
          LET e == op.l.batch.entities[i]
          IN  /\ e.type = S_Activity
              /\ Has(e.properties, "cause")
              /\ Has(e.properties, "effect")
              /\ Cardinality({x[2] : x \in Annotators(op.l.batch, e.id, "cause")}) > 1

----------------------------------------------------------------------------
(* DocumentProcessor.process_text: the id of the node of an extracted       *)
(* entity and the id of a relationship endpoint, from one raw label.        *)

MaxWords == 3

\* the words of the raw labels: qualifiers, 'Case' and plain words
LabelWords == {<<"A", "c", "t", "i", "v", "i", "t", "y">>, <<"s", "t", "a", "t", "u", "s">>, <<"J", "o", "b">>, <<"C", "a", "s", "e">>, <<"S", "a", "l", "e">>, <<"x", "-", "1">>}

\* words[1] ' ' words[2] ' ' ...
RECURSIVE JoinWords(_)
JoinWords(words) ==
    IF Len(words) = 0 THEN << >>
    ELSE IF Len(words) = 1 THEN words[1]
    ELSE words[1] \o <<" ">> \o JoinWords(Tail(words))

\* the raw labels: empty, or up to MaxWords words, with or without a blank
\* at the end
RawLabels ==
    {<< >>} \cup {JoinWords(ws) \o pad : ws \in SeqsUpTo(LabelWords, MaxWords), pad \in {<< >>, <<" ">>}}

\* steps 3 and 4 of process_text for an entity with label raw_label and a
\* relationship with endpoint string raw_label
process_text_ids ==
    /\ op.name = "process_text"
    /\ op.pc = "extracted"
    /\ op' = [op EXCEPT !.pc = "done", !.out = "ok",
                        !.l = [final_label |-> _standardize_label(op.a.raw_label),
                               clean_id |-> _generate_id(_standardize_label(op.a.raw_label)),
                               from_id |-> _generate_id(op.a.raw_label)]]
    /\ UNCHANGED <<V, E, q>>

InitLabel ==
    /\ V = {}
    /\ E = {}
    /\ \E raw_label \in RawLabels :
          op = NewOp("process_text", "extracted", [id |-> None, raw_label |-> raw_label], NoArgs)
    /\ q = IdleFrame

NextLabel == process_text_ids

SpecLabel == InitLabel /\ [][NextLabel]_vars

\* C26: the id process_text computes for the node of a raw label equals the
\* id it computes for a relationship endpoint with that label, and
\* _standardize_label applied to a standardized label changes nothing
C26_IdsAgree ==
    (op.name = "process_text" /\ op.pc = "done")
        => /\ op.l.clean_id = op.l.from_id
           /\ _standardize_label(op.l.final_label) = op.l.final_label

----------------------------------------------------------------------------
(* The two writes of the repository, called on their own.                   *)

\* GraphRepository.create_relationship(from_id, to_id, label, properties)
create_relationship(from_id, to_id, label, properties) ==
    /\ Idle
    /\ op' = NewOp("create_relationship", "query",
                   [id |-> None, from |-> from_id, to |-> to_id, label |-> label], NoArgs)
    /\ q' = Submit(create_relationship_query(from_id, to_id, label, properties))
    /\ UNCHANGED <<V, E>>

InitWrite ==
    /\ V = {}
    /\ E = {}
    /\ op = IdleOp
    /\ q = IdleFrame

NextWrite ==
    \/ \E id \in {S_a, S_b} : create_entity(id, S_Case, [k \in {"name"} |-> S_v1])
    \/ \E to_id \in {S_a, S_b} :
          create_relationship(S_a, to_id, S_NEXT, [k \in {"doc"} |-> S_car_log_csv])
    \/ \E resp \in Responses : Attempt(resp)
    \/ Wake
    \/ ReturnFromQuery

SpecWrite == InitWrite /\ [][NextWrite]_vars

\* C27: when create_entity(id, ...) has returned without raising, the store
\* holds a node with that id, and when create_relationship(from, to, label,
\* ...) has returned without raising, the store holds an edge with that label
\* from 'from' to 'to'
C27_WriteApplied ==
    (op.pc = "done" /\ op.out = "ok")
        => /\ op.name = "create_entity" => \E v \in V : v.id = op.a.id
           /\ op.name = "create_relationship"
                 => \E e \in E : e.from = op.a.from /\ e.to = op.a.to /\ e.label = op.a.label

----------------------------------------------------------------------------
(* Changing the label of an edge.                                           *)

\* C28: after upgrade_relationship(rel_id, new_type) has returned success
\* for an edge from S to T, the store holds an edge from S to T labelled
\* new_type and the edge rel_id is gone, whatever new_type is
C28_UpgradeKeepsConnection ==
    (op.name = "upgrade_relationship" /\ op.pc = "done" /\ op.out = "ok"
        /\ op.l.ret = "success")
        => /\ \E e \in E : e.from = op.l.sid /\ e.to = op.l.tid /\ e.label = op.a.label
           /\ \A e \in E : e.id # op.a.id


----------------------------------------------------------------------------
(* Two sources that share a node id: the first is in the store, the second  *)
(* is ingested and then deleted.                                            *)

\* a source of one Case that takes the step 'Login'
ShareFrame(case_val) == [columns |-> UntimedColumns, rows |-> <<<<case_val, S_Login>>>>]

\* the stores the calls from calls[i] on leave, each answered with a result
RECURSIVE Applied(_, _, _)
Applied(calls, i, stores) ==
    IF i > Len(calls) THEN stores
    ELSE Applied(calls, i + 1,
                 UNION {{[V |-> out.V, E |-> out.E] : out \in StoreOutcomes(calls[i], s.V, s.E)} :
                           s \in stores})

\* the store after _process_csv_graph of 'car_log.csv' into an empty store
FirstSource == Applied(IngestCalls(Batch(ShareFrame(S_c1), S_car_log_csv)), 1, {[V |-> {}, E |-> {}]})

InitShare ==
    /\ \E s \in FirstSource : V = s.V /\ E = s.E
    /\ op = IdleOp
    /\ q = IdleFrame

\* 'bus_log.csv' is ingested, and then it is deleted
NextShare ==
    \/ /\ op.name = "none"
       /\ \E case_val \in {S_c1, S_c2} : _process_csv_graph(ShareFrame(case_val), S_bus_log_csv)
    \/ /\ op.name = "_process_csv_graph"
       /\ op.out = "ok"
       /\ delete_data_by_filename(S_bus_log_csv)
    \/ ingest_returned
    \/ ingest_paused
    \/ \E resp \in Responses : ingest_attempt(resp)
    \/ /\ op.name = "delete_data_by_filename"
       /\ \E resp \in Responses : Attempt(resp)
    \/ delete_counted
    \/ delete_dropped
    \/ delete_paused
    \/ ReturnFromQuery
    \/ Wake
    \/ Propagate

SpecShare == InitShare /\ [][NextShare]_vars

\* C29: with 'car_log.csv' ingested and then 'bus_log.csv', whose rows share
\* node ids with it, once delete_data_by_filename('bus_log.csv') has
\* completed every node that the ingestion of 'car_log.csv' wrote and every
\* edge with doc = 'car_log.csv' is still in the store
C29_EarlierDocumentKept ==
    (op.name = "delete_data_by_filename" /\ op.pc = "done" /\ op.out = "ok")
        => \E s \in FirstSource :
              /\ \A v \in s.V : \E w \in V : w.id = v.id
              /\ \A e \in s.E : \E f \in E : f.from = e.from /\ f.to = e.to /\ f.label = e.label
                                             /\ f.props = e.props

----------------------------------------------------------------------------
(* The partition key update_entity and delete_entity resolve.               *)

\* step 4 of both: what the discovery lookup for entity_id can give in the
\* store Vs, the key found or None
Discovered(entity_id, Vs) ==
    {None} \cup {IF out.res # << >> THEN out.res[1] ELSE None :
                    out \in StoreOutcomes(discovery_query(entity_id), Vs, {})}

\* the keys update_entity can resolve as true_pk
UpdateResolves(entity_id, partition_key, Vs) ==
    {IF Truthy(update_entity_pre(entity_id, payload, partition_key).true_pk)
     THEN {update_entity_pre(entity_id, payload, partition_key).true_pk}
     ELSE Discovered(entity_id, Vs) : payload \in Payloads}

\* the keys delete_entity can resolve as true_pk
DeleteResolves(entity_id, partition_key, Vs) ==
    IF Truthy(delete_entity_pre(entity_id, partition_key))
    THEN {delete_entity_pre(entity_id, partition_key)}
    ELSE Discovered(entity_id, Vs)

\* C30: for every entity id, key hint and store, the key update_entity
\* resolves as true_pk is a key delete_entity resolves for them, and the key
\* delete_entity resolves is a key update_entity resolves for them
C30_SameKeyResolved ==
    (op.pc = "query" /\ q.hist = << >>)
        => /\ op.name = "update_entity"
                 => op.l.true_pk \in DeleteResolves(op.a.id, op.a.hint, V)
           /\ op.name = "delete_entity"
                 => \A keys \in UpdateResolves(op.a.id, op.a.hint, V) : op.l.true_pk \in keys
=============================================================================
